---- MODULE Spec2Model ----
(***************************************************************************)
(* Versioned envelope protocol of jsmcel/Secure: KDF provider (kdf.ts),    *)
(* header codec (crypto-header.ts), envelope cipher and auto-detecting     *)
(* decrypt (crypto-v2.ts), legacy adapter (legacy-crypto.ts) and the       *)
(* three-step recovery flow of CryptoVault.tsx.                            *)
(*                                                                         *)
(* Representation.  A byte is an integer 0..255, a Uint8Array a sequence   *)
(* of bytes, a JavaScript string a sequence of Unicode scalar values.      *)
(* A derived key never reaches a blob, so it is kept as the tuple of what  *)
(* it was derived from (an ideal, collision-free KDF).  tweetnacl's        *)
(* secretbox is an ideal authenticated cipher: the variable boxes lists    *)
(* the (key, nonce, message) triples sealed so far, the 16 tag bytes of a  *)
(* box are the little-endian index of its triple in that list, and a box   *)
(* opens only when it is byte for byte the box of a listed triple.         *)
(***************************************************************************)
EXTENDS Integers, Sequences, FiniteSets, TLC

(***************************************************************************)
(* Bounds of the model                                                     *)
(***************************************************************************)
\* number of distinct outcomes of the random source that are explored
MaxSeed == 1
\* length of the longest plaintext that is explored
MaxTextLen == 1
\* number of triple encryptions explored in one behaviour of the vault
MaxVaults == 1

(***************************************************************************)
(* Bytes                                                                   *)
(***************************************************************************)
RECURSIVE Pow2(_)
Pow2(k) == IF k = 0 THEN 1 ELSE 2 * Pow2(k - 1)

\* bit k (0 = least significant) of byte b
Bit(b, k) == (b \div Pow2(k)) % 2

\* byte b with bit k inverted
FlipBitOfByte(b, k) == IF Bit(b, k) = 1 THEN b - Pow2(k) ELSE b + Pow2(k)

RECURSIVE Xor(_, _)
\* a ^ b on bytes
Xor(a, b) ==
  IF a = 0 THEN b
  ELSE IF b = 0 THEN a
  ELSE ((a + b) % 2) + 2 * Xor(a \div 2, b \div 2)

RECURSIVE SumSeq(_)
SumSeq(s) == IF s = <<>> THEN 0 ELSE (Head(s) + SumSeq(Tail(s))) % 65536

\* Uint8Array.prototype.slice(from, to) with 0-based, end-exclusive indices
Slice(s, from, to) ==
  LET hi == IF to > Len(s) THEN Len(s) ELSE to
  IN  IF from >= hi THEN <<>> ELSE SubSeq(s, from + 1, hi)

\* Uint8Array.prototype.slice(from)
SliceFrom(s, from) == Slice(s, from, Len(s))

(***************************************************************************)
(* Text codecs: TextEncoder / TextDecoder (UTF-8)                          *)
(***************************************************************************)
BOM == 65279

Utf8OfChar(c) ==
  IF c < 128 THEN <<c>>
  ELSE IF c < 2048 THEN <<192 + (c \div 64), 128 + (c % 64)>>
  ELSE <<224 + (c \div 4096), 128 + ((c \div 64) % 64), 128 + (c % 64)>>

RECURSIVE Utf8Encode(_)
\* new TextEncoder().encode(s)
Utf8Encode(s) ==
  IF s = <<>> THEN <<>>
  ELSE IF Len(s) = 1 THEN Utf8OfChar(s[1])
  ELSE LET h == Len(s) \div 2
       IN  Utf8Encode(SubSeq(s, 1, h)) \o Utf8Encode(SubSeq(s, h + 1, Len(s)))

IsCont(b) == b >= 128 /\ b < 192

\* bytes j, j+1 are a well-formed two-byte sequence
Lead2(b, j) ==
  j >= 1 /\ j + 1 <= Len(b) /\ b[j] >= 194 /\ b[j] < 224 /\ IsCont(b[j + 1])

\* bytes j, j+1, j+2 are a well-formed three-byte sequence
Lead3(b, j) ==
  /\ j >= 1 /\ j + 2 <= Len(b) /\ b[j] >= 224 /\ b[j] < 240
  /\ IsCont(b[j + 1]) /\ IsCont(b[j + 2])
  /\ (b[j] - 224) * 4096 + (b[j + 1] - 128) * 64 >= 2048

\* the code point decoded at byte j, -1 when byte j continues a sequence
\* that began before it, U+FFFD when it is malformed
Utf8At(b, j) ==
  IF Lead2(b, j - 1) \/ Lead3(b, j - 1) \/ Lead3(b, j - 2) THEN -1
  ELSE IF b[j] < 128 THEN b[j]
  ELSE IF Lead2(b, j) THEN (b[j] - 192) * 64 + (b[j + 1] - 128)
  ELSE IF Lead3(b, j)
    THEN (b[j] - 224) * 4096 + (b[j + 1] - 128) * 64 + (b[j + 2] - 128)
  ELSE 65533

NotNegative(x) == x >= 0

\* the UTF-8 decoder proper
Utf8Scan(b) == SelectSeq([j \in 1 .. Len(b) |-> Utf8At(b, j)], NotNegative)

\* new TextDecoder().decode(b): ignoreBOM is false by default, so one leading
\* byte order mark is removed from the decoded text
Utf8Decode(b) ==
  LET strip(s) == IF s # <<>> /\ s[1] = BOM THEN Tail(s) ELSE s
  IN  strip(Utf8Scan(b))

\* the white space String.prototype.trim removes (those that occur in the model)
WhiteSpace == {9, 10, 13, 32, BOM}

RECURSIVE TrimStart(_)
TrimStart(s) ==
  IF s # <<>> /\ Head(s) \in WhiteSpace THEN TrimStart(Tail(s)) ELSE s

RECURSIVE TrimEnd(_)
TrimEnd(s) ==
  IF s # <<>> /\ s[Len(s)] \in WhiteSpace
  THEN TrimEnd(SubSeq(s, 1, Len(s) - 1)) ELSE s

Trim(s) == TrimEnd(TrimStart(s))

(***************************************************************************)
(* Base64 (Buffer)                                                         *)
(***************************************************************************)
\* the character code of base64 digit d
B64Char(d) ==
  IF d < 26 THEN 65 + d
  ELSE IF d < 52 THEN 97 + (d - 26)
  ELSE IF d < 62 THEN 48 + (d - 52)
  ELSE IF d = 62 THEN 43 ELSE 47

\* the digit of a character code, -1 when it is not a base64 character
B64Digit(c) ==
  IF c >= 65 /\ c <= 90 THEN c - 65
  ELSE IF c >= 97 /\ c <= 122 THEN c - 97 + 26
  ELSE IF c >= 48 /\ c <= 57 THEN c - 48 + 52
  ELSE IF c = 43 \/ c = 45 THEN 62
  ELSE IF c = 47 \/ c = 95 THEN 63
  ELSE -1

\* Buffer.from(bytes).toString('base64')
B64Encode(b) ==
  LET n == Len(b)
      at(i) == IF i <= n THEN b[i] ELSE 0
      char(j) ==
        LET g == 3 * ((j - 1) \div 4)
            r == (j - 1) % 4
        IN  IF r = 0 THEN B64Char(at(g + 1) \div 4)
            ELSE IF r = 1 THEN B64Char((at(g + 1) % 4) * 16 + (at(g + 2) \div 16))
            ELSE IF r = 2 THEN
              IF g + 2 > n THEN 61
              ELSE B64Char((at(g + 2) % 16) * 4 + (at(g + 3) \div 64))
            ELSE IF g + 3 > n THEN 61 ELSE B64Char(at(g + 3) % 64)
  IN  [j \in 1 .. 4 * ((n + 2) \div 3) |-> char(j)]

\* the digits of the characters before the first '=', other characters dropped
B64Clean(s) ==
  LET pads == {i \in 1 .. Len(s) : s[i] = 61}
      stop == IF pads = {} THEN Len(s) + 1
              ELSE CHOOSE i \in pads : \A j \in pads : i <= j
  IN  SelectSeq([i \in 1 .. (stop - 1) |-> B64Digit(s[i])], NotNegative)

\* the bytes of a sequence of base64 digits
B64Groups(d) ==
  LET n == Len(d)
      rest == n % 4
      len == 3 * (n \div 4) + (IF rest = 2 THEN 1 ELSE IF rest = 3 THEN 2 ELSE 0)
      byte(j) ==
        LET g == 4 * ((j - 1) \div 3)
            r == (j - 1) % 3
        IN  IF r = 0 THEN d[g + 1] * 4 + (d[g + 2] \div 16)
            ELSE IF r = 1 THEN (d[g + 2] % 16) * 16 + (d[g + 3] \div 4)
            ELSE (d[g + 3] % 4) * 64 + d[g + 4]
  IN  [j \in 1 .. len |-> byte(j)]

\* Buffer.from(s, 'base64')
B64Decode(s) == B64Groups(B64Clean(s))

(***************************************************************************)
(* 32-bit unsigned fields.  TLC integers are 32 bits wide, so a uint32 at  *)
(* or above 2^31 is carried as that value minus 2^32 (a negative number).  *)
(***************************************************************************)
Huge(v) == v < 0

\* DataView.getUint32(off, true): little endian
GetUint32(b, off) ==
  b[off + 1] + 256 * b[off + 2] + 65536 * b[off + 3]
  + 16777216 * (IF b[off + 4] < 128 THEN b[off + 4] ELSE b[off + 4] - 256)

\* DataView.setUint32(off, v, true): the four little-endian bytes of v mod 2^32
Uint32Bytes(v) ==
  LET w == IF v < 0 THEN (v + 2147483647) + 1 ELSE v
  IN  <<w % 256, (w \div 256) % 256, (w \div 65536) % 256,
        (w \div 16777216) + (IF v < 0 THEN 128 ELSE 0)>>

(***************************************************************************)
(* Secure random source: Crypto.getRandomBytesAsync                        *)
(***************************************************************************)
Seeds == 0 .. (MaxSeed - 1)

\* the n bytes the source returns on its draw-th call when its outcome is seed
RandomBytes(n, seed, draw) ==
  [i \in 1 .. n |-> (seed * 83 + draw * 41 + i * 7 + 5) % 256]

(***************************************************************************)
(* Errors: an Error object is its message, with the interpolated value     *)
(***************************************************************************)
Err(msg, arg) == [msg |-> msg, arg |-> arg]

NoErr == Err("", <<>>)

(***************************************************************************)
(* KDF provider (kdf.ts)                                                   *)
(***************************************************************************)
DEFAULT_ARGON2ID ==
  [id |-> "argon2id", m |-> 19 * 1024, t |-> 2, p |-> 1,
   N |-> 0, r |-> 0, s_p |-> 0, keyLen |-> 32]

DEFAULT_SCRYPT ==
  [id |-> "scrypt", N |-> 131072, r |-> 8, s_p |-> 1,
   m |-> 0, t |-> 0, p |-> 0, keyLen |-> 32]

MOBILE_SCRYPT ==
  [id |-> "scrypt", N |-> 4096, r |-> 8, s_p |-> 1,
   m |-> 0, t |-> 0, p |-> 0, keyLen |-> 32]

\* a Partial<KdfConfig> is a record holding only the fields that are given;
\* no configuration at all is the record without fields
NoCfg == [k \in {} |-> 0]

\* object spread { ...d, ...c }
Spread(d, c) ==
  [k \in (DOMAIN d) \cup (DOMAIN c) |-> IF k \in DOMAIN c THEN c[k] ELSE d[k]]

\* cfg?.id, "" when it is undefined
CfgId(cfg) == IF "id" \in DOMAIN cfg THEN cfg.id ELSE ""

\* loadArgon2 after its await, as it would be if a load that finds the cache
\* set by another call in the meantime gave up
importResolvedExclusive(cache, avail) ==
  IF cache THEN [lib |-> FALSE, cache |-> TRUE]
  ELSE IF avail THEN [lib |-> TRUE, cache |-> TRUE]
  ELSE [lib |-> FALSE, cache |-> cache]

\* loadArgon2 after its await: import('hash-wasm') has resolved, and the
\* implementation is stored and returned, or it has failed and null is
\* returned
importResolved(cache, avail) ==
  IF avail THEN [lib |-> TRUE, cache |-> TRUE]
  ELSE [lib |-> FALSE, cache |-> cache]

\* loadArgon2: the cached implementation if there is one, else the result of
\* import('hash-wasm'), cached when it succeeds.  cache and avail are
\* BOOLEAN: the module variable argon2 is set / the import succeeds.
loadArgon2(cache, avail) ==
  IF cache THEN [lib |-> TRUE, cache |-> TRUE]
  ELSE IF avail THEN [lib |-> TRUE, cache |-> TRUE]
  ELSE [lib |-> FALSE, cache |-> FALSE]

\* the argument checks of hash-wasm's argon2id: it rejects an empty password,
\* a salt under 8 bytes, iterations or parallelism under 1, a hash length
\* under 4 and a memory size under 8 * parallelism
Argon2Accepts(password, salt, config) ==
  /\ password # <<>>
  /\ Len(salt) >= 8
  /\ (Huge(config.t) \/ config.t >= 1)
  /\ (Huge(config.p) \/ config.p >= 1)
  /\ config.keyLen >= 4
  /\ ~Huge(config.p)
  /\ (Huge(config.m) \/ (config.m \div 8) >= config.p)

\* deriveKeyArgon2id: throws when the implementation cannot be loaded or
\* rejects its arguments, else the key
deriveKeyArgon2id(password, salt, config, cache, avail) ==
  LET loaded(l) ==
        IF ~l.lib
        THEN [ok |-> FALSE, key |-> <<>>, cache |-> l.cache,
              err |-> Err("Argon2 not available", <<>>)]
        ELSE IF ~Argon2Accepts(password, salt, config)
        THEN [ok |-> FALSE, key |-> <<>>, cache |-> l.cache,
              err |-> Err("argon2id rejected its arguments", <<>>)]
        ELSE [ok |-> TRUE, cache |-> l.cache, err |-> NoErr,
              key |-> <<"argon2id", Utf8Encode(password), salt,
                        config.m, config.t, config.p, config.keyLen>>]
  IN  loaded(loadArgon2(cache, avail))

IsPow2(n) == \E k \in 0 .. 30 : n = Pow2(k)

\* a * 128 * b exceeds 0x7fffffff (scrypt-js: a > MAX_VALUE / 128 / b)
TooLarge(a, b) ==
  /\ b # 0
  /\ (Huge(a) \/ Huge(b) \/ a > (16777215 \div b))

\* the argument checks of scrypt-js
ScryptAccepts(config) ==
  /\ ~Huge(config.N) /\ IsPow2(config.N)
  /\ ~TooLarge(config.N, config.r)
  /\ ~TooLarge(config.r, config.s_p)

\* deriveKeyScrypt
deriveKeyScrypt(password, salt, config) ==
  IF ~ScryptAccepts(config)
  THEN [ok |-> FALSE, key |-> <<>>,
        err |-> Err("Error: scrypt rejected its arguments", <<>>)]
  ELSE [ok |-> TRUE, err |-> NoErr,
        key |-> <<"scrypt", Utf8Encode(password), salt,
                  config.N, config.r, config.s_p, config.keyLen>>]

\* deriveKey as it would be if it returned the requested configuration after
\* falling back to scrypt
deriveKeyRequestedConfig(password, salt, cfg, cache, avail) ==
  LET scrypted(s, scryptConfig, cache2) ==
        IF s.ok
        THEN [ok |-> TRUE, key |-> s.key, err |-> NoErr, cache |-> cache2,
              config |-> Spread(DEFAULT_ARGON2ID, cfg), ran |-> "scrypt"]
        ELSE [ok |-> FALSE, key |-> <<>>, cache |-> cache2,
              err |-> Err("Key derivation failed: " \o s.err.msg, <<>>),
              config |-> scryptConfig, ran |-> "none"]
      fallback(scryptConfig, cache2) ==
        scrypted(deriveKeyScrypt(password, salt, scryptConfig), scryptConfig, cache2)
      scryptOf(cache2) ==
        fallback(IF CfgId(cfg) = "scrypt"
                 THEN Spread(DEFAULT_SCRYPT, cfg) ELSE MOBILE_SCRYPT, cache2)
      argoned(a, config) ==
        IF a.ok
        THEN [ok |-> TRUE, key |-> a.key, err |-> NoErr, cache |-> a.cache,
              config |-> [config EXCEPT !.id = "argon2id"], ran |-> "argon2id"]
        ELSE scryptOf(a.cache)
      start(config) ==
        IF config.id = "argon2id" \/ CfgId(cfg) = ""
        THEN argoned(deriveKeyArgon2id(password, salt, config, cache, avail), config)
        ELSE scryptOf(cache)
  IN  start(Spread(DEFAULT_ARGON2ID, cfg))

\* deriveKey as it would be if the scrypt fallback took the parameters the
\* caller gave over those of MOBILE_SCRYPT
deriveKeyFallbackSpread(password, salt, cfg, cache, avail) ==
  LET scrypted(s, scryptConfig, cache2) ==
        IF s.ok
        THEN [ok |-> TRUE, key |-> s.key, err |-> NoErr, cache |-> cache2,
              config |-> scryptConfig, ran |-> "scrypt"]
        ELSE [ok |-> FALSE, key |-> <<>>, cache |-> cache2,
              err |-> Err("Key derivation failed: " \o s.err.msg, <<>>),
              config |-> scryptConfig, ran |-> "none"]
      fallback(scryptConfig, cache2) ==
        scrypted(deriveKeyScrypt(password, salt, scryptConfig), scryptConfig, cache2)
      scryptOf(cache2) ==
        fallback(IF CfgId(cfg) = "scrypt"
                 THEN Spread(DEFAULT_SCRYPT, cfg)
                 ELSE [Spread(MOBILE_SCRYPT, cfg) EXCEPT !.id = "scrypt"], cache2)
      argoned(a, config) ==
        IF a.ok
        THEN [ok |-> TRUE, key |-> a.key, err |-> NoErr, cache |-> a.cache,
              config |-> [config EXCEPT !.id = "argon2id"], ran |-> "argon2id"]
        ELSE scryptOf(a.cache)
      start(config) ==
        IF config.id = "argon2id" \/ CfgId(cfg) = ""
        THEN argoned(deriveKeyArgon2id(password, salt, config, cache, avail), config)
        ELSE scryptOf(cache)
  IN  start(Spread(DEFAULT_ARGON2ID, cfg))

\* deriveKey as it would be if Argon2id were tried first whatever the id of
\* the request
deriveKeyArgon2Always(password, salt, cfg, cache, avail) ==
  LET scrypted(s, scryptConfig, cache2) ==
        IF s.ok
        THEN [ok |-> TRUE, key |-> s.key, err |-> NoErr, cache |-> cache2,
              config |-> scryptConfig, ran |-> "scrypt"]
        ELSE [ok |-> FALSE, key |-> <<>>, cache |-> cache2,
              err |-> Err("Key derivation failed: " \o s.err.msg, <<>>),
              config |-> scryptConfig, ran |-> "none"]
      fallback(scryptConfig, cache2) ==
        scrypted(deriveKeyScrypt(password, salt, scryptConfig), scryptConfig, cache2)
      scryptOf(cache2) ==
        fallback(IF CfgId(cfg) = "scrypt"
                 THEN Spread(DEFAULT_SCRYPT, cfg) ELSE MOBILE_SCRYPT, cache2)
      argoned(a, config) ==
        IF a.ok
        THEN [ok |-> TRUE, key |-> a.key, err |-> NoErr, cache |-> a.cache,
              config |-> [config EXCEPT !.id = "argon2id"], ran |-> "argon2id"]
        ELSE scryptOf(a.cache)
      start(config) ==
        argoned(deriveKeyArgon2id(password, salt, config, cache, avail), config)
  IN  start(Spread(DEFAULT_ARGON2ID, cfg))

\* deriveKey(password, salt, cfg).  ran names the KDF that produced the key.
deriveKey(password, salt, cfg, cache, avail) ==
  LET scrypted(s, scryptConfig, cache2) ==
        IF s.ok
        THEN [ok |-> TRUE, key |-> s.key, err |-> NoErr, cache |-> cache2,
              config |-> scryptConfig, ran |-> "scrypt"]
        ELSE [ok |-> FALSE, key |-> <<>>, cache |-> cache2,
              err |-> Err("Key derivation failed: " \o s.err.msg, <<>>),
              config |-> scryptConfig, ran |-> "none"]
      fallback(scryptConfig, cache2) ==
        scrypted(deriveKeyScrypt(password, salt, scryptConfig), scryptConfig, cache2)
      scryptOf(cache2) ==
        fallback(IF CfgId(cfg) = "scrypt"
                 THEN Spread(DEFAULT_SCRYPT, cfg) ELSE MOBILE_SCRYPT, cache2)
      argoned(a, config) ==
        IF a.ok
        THEN [ok |-> TRUE, key |-> a.key, err |-> NoErr, cache |-> a.cache,
              config |-> [config EXCEPT !.id = "argon2id"], ran |-> "argon2id"]
        ELSE scryptOf(a.cache)
      start(config) ==
        IF config.id = "argon2id" \/ CfgId(cfg) = ""
        THEN argoned(deriveKeyArgon2id(password, salt, config, cache, avail), config)
        ELSE scryptOf(cache)
  IN  start(Spread(DEFAULT_ARGON2ID, cfg))

\* serializeKdfParams: 12 bytes, three little-endian uint32
serializeKdfParams(config) ==
  IF config.id = "argon2id"
  THEN Uint32Bytes(config.m) \o Uint32Bytes(config.t) \o Uint32Bytes(config.p)
  ELSE IF config.id = "scrypt"
  THEN Uint32Bytes(config.N) \o Uint32Bytes(config.r) \o Uint32Bytes(config.s_p)
  ELSE [i \in 1 .. 12 |-> 0]

\* deserializeKdfParams as it would be if the second and third parameter were
\* read from each other's offset
deserializeKdfParamsSwapped(kdfId, params) ==
  IF kdfId = "argon2id"
  THEN [id |-> "argon2id", m |-> GetUint32(params, 0), t |-> GetUint32(params, 8),
        p |-> GetUint32(params, 4), N |-> 0, r |-> 0, s_p |-> 0, keyLen |-> 32]
  ELSE [id |-> "scrypt", N |-> GetUint32(params, 0), r |-> GetUint32(params, 8),
        s_p |-> GetUint32(params, 4), m |-> 0, t |-> 0, p |-> 0, keyLen |-> 32]

\* deserializeKdfParams(kdfId, params); kdfId is one of the two names here,
\* parseHeader having rejected every other id byte
deserializeKdfParams(kdfId, params) ==
  IF kdfId = "argon2id"
  THEN [id |-> "argon2id", m |-> GetUint32(params, 0), t |-> GetUint32(params, 4),
        p |-> GetUint32(params, 8), N |-> 0, r |-> 0, s_p |-> 0, keyLen |-> 32]
  ELSE [id |-> "scrypt", N |-> GetUint32(params, 0), r |-> GetUint32(params, 4),
        s_p |-> GetUint32(params, 8), m |-> 0, t |-> 0, p |-> 0, keyLen |-> 32]

(***************************************************************************)
(* Header codec (crypto-header.ts)                                         *)
(***************************************************************************)
\* 'SS1'
MAGIC == <<83, 83, 49>>

VERSION == 1

HEADER_SIZE == 3 + 1 + 1 + 12 + 16 + 24

\* KDF_IDS[id], 0 when the table has no such id
KDF_IDS(id) == IF id = "argon2id" THEN 1 ELSE IF id = "scrypt" THEN 2 ELSE 0

\* KDF_NAMES[byte], "" when the table has no such byte
KDF_NAMES(byte) == IF byte = 1 THEN "argon2id" ELSE IF byte = 2 THEN "scrypt" ELSE ""

NoHeader ==
  [magic |-> <<>>, version |-> 0, kdfId |-> "", kdfConfig |-> NoCfg,
   salt |-> <<>>, nonce |-> <<>>]

\* target.set(source, offset) of a Uint8Array: a RangeError when the source
\* does not fit
TypedArraySet(target, source, offset) ==
  IF offset + Len(source) > Len(target)
  THEN [ok |-> FALSE, bytes |-> target]
  ELSE [ok |-> TRUE,
        bytes |-> [i \in 1 .. Len(target) |->
                     IF i > offset /\ i <= offset + Len(source)
                     THEN source[i - offset] ELSE target[i]]]

\* createHeader as it would be if the fields were appended one after the
\* other instead of written into an array of HEADER_SIZE bytes
createHeaderAppended(kdfConfig, salt, nonce) ==
  IF KDF_IDS(kdfConfig.id) = 0
  THEN [ok |-> FALSE, bytes |-> <<>>, err |-> Err("Unknown KDF ID", <<>>)]
  ELSE [ok |-> TRUE, err |-> NoErr,
        bytes |-> Utf8Encode(MAGIC) \o <<VERSION>> \o <<KDF_IDS(kdfConfig.id)>>
                  \o serializeKdfParams(kdfConfig) \o salt \o nonce]

\* createHeader(kdfConfig, salt, nonce): the fields are written at fixed
\* offsets of new Uint8Array(HEADER_SIZE)
createHeader(kdfConfig, salt, nonce) ==
  LET fail(msg) == [ok |-> FALSE, bytes |-> <<>>, err |-> Err(msg, <<>>)]
      withNonce(h) ==
        IF h.ok THEN [ok |-> TRUE, err |-> NoErr, bytes |-> h.bytes]
        ELSE fail("offset is out of bounds")
      withSalt(h) ==
        IF h.ok THEN withNonce(TypedArraySet(h.bytes, nonce, 33))
        ELSE fail("offset is out of bounds")
  IN  IF KDF_IDS(kdfConfig.id) = 0 THEN fail("Unknown KDF ID")
      ELSE withSalt(TypedArraySet(
             Utf8Encode(MAGIC) \o <<VERSION>> \o <<KDF_IDS(kdfConfig.id)>>
             \o serializeKdfParams(kdfConfig) \o [i \in 1 .. 40 |-> 0],
             salt, 17))

\* parseHeader as it would be if the version byte were not checked
parseHeaderAnyVersion(blob) ==
  LET fail(e) == [ok |-> FALSE, err |-> e, header |-> NoHeader, ciphertext |-> <<>>]
      checked(magic) ==
        IF magic # MAGIC THEN fail(Err("Invalid magic", magic))
        ELSE IF KDF_NAMES(blob[5]) = "" THEN fail(Err("Unknown KDF ID", <<blob[5]>>))
        ELSE [ok |-> TRUE, err |-> NoErr,
              header |-> [magic |-> magic, version |-> blob[4],
                          kdfId |-> KDF_NAMES(blob[5]),
                          kdfConfig |-> deserializeKdfParams(KDF_NAMES(blob[5]),
                                                             Slice(blob, 5, 17)),
                          salt |-> Slice(blob, 17, 33),
                          nonce |-> Slice(blob, 33, 57)],
              ciphertext |-> SliceFrom(blob, 57)]
  IN  IF Len(blob) < HEADER_SIZE THEN fail(Err("Blob too short for header", <<>>))
      ELSE checked(Utf8Decode(Slice(blob, 0, 3)))

\* parseHeader as it would be if the KDF id byte were looked up before the
\* version byte is checked
parseHeaderKdfFirst(blob) ==
  LET fail(e) == [ok |-> FALSE, err |-> e, header |-> NoHeader, ciphertext |-> <<>>]
      checked(magic) ==
        IF magic # MAGIC THEN fail(Err("Invalid magic", magic))
        ELSE IF KDF_NAMES(blob[5]) = "" THEN fail(Err("Unknown KDF ID", <<blob[5]>>))
        ELSE IF blob[4] # VERSION THEN fail(Err("Unsupported version", <<blob[4]>>))
        ELSE [ok |-> TRUE, err |-> NoErr,
              header |-> [magic |-> magic, version |-> blob[4],
                          kdfId |-> KDF_NAMES(blob[5]),
                          kdfConfig |-> deserializeKdfParams(KDF_NAMES(blob[5]),
                                                             Slice(blob, 5, 17)),
                          salt |-> Slice(blob, 17, 33),
                          nonce |-> Slice(blob, 33, 57)],
              ciphertext |-> SliceFrom(blob, 57)]
  IN  IF Len(blob) < HEADER_SIZE THEN fail(Err("Blob too short for header", <<>>))
      ELSE checked(Utf8Decode(Slice(blob, 0, 3)))

\* parseHeader(blob)
parseHeader(blob) ==
  LET fail(e) == [ok |-> FALSE, err |-> e, header |-> NoHeader, ciphertext |-> <<>>]
      checked(magic) ==
        IF magic # MAGIC THEN fail(Err("Invalid magic", magic))
        ELSE IF blob[4] # VERSION THEN fail(Err("Unsupported version", <<blob[4]>>))
        ELSE IF KDF_NAMES(blob[5]) = "" THEN fail(Err("Unknown KDF ID", <<blob[5]>>))
        ELSE [ok |-> TRUE, err |-> NoErr,
              header |-> [magic |-> magic, version |-> blob[4],
                          kdfId |-> KDF_NAMES(blob[5]),
                          kdfConfig |-> deserializeKdfParams(KDF_NAMES(blob[5]),
                                                             Slice(blob, 5, 17)),
                          salt |-> Slice(blob, 17, 33),
                          nonce |-> Slice(blob, 33, 57)],
              ciphertext |-> SliceFrom(blob, 57)]
  IN  IF Len(blob) < HEADER_SIZE THEN fail(Err("Blob too short for header", <<>>))
      ELSE checked(Utf8Decode(Slice(blob, 0, 3)))

\* createBlob(header, ciphertext)
createBlob(header, ciphertext) == header \o ciphertext

blobToBase64(blob) == B64Encode(blob)

base64ToBlob(b64) == B64Decode(b64)

(***************************************************************************)
(* tweetnacl secretbox (XSalsa20-Poly1305) as an ideal authenticated       *)
(* cipher over the list of sealed triples                                  *)
(***************************************************************************)
\* the length of a key
KeyLen(key) == key[7]

\* what the key stream of (key, nonce) starts from
StreamSeed(key, nonce) ==
  (SumSeq(key[2]) + SumSeq(key[3]) + SumSeq(nonce)
   + (key[4] % 251) + (key[5] % 251) + (key[6] % 251) + 101) % 256

\* byte i of the key stream that starts from seed
KeyStream(seed, i) == (seed + 13 * i) % 256

\* msg ^ key stream of (key, nonce), byte by byte
StreamXor(msg, nonce, key) ==
  LET seed == StreamSeed(key, nonce)
  IN  [i \in 1 .. Len(msg) |-> Xor(msg[i], KeyStream(seed, i))]

\* the 16-byte authenticator of the n-th sealed triple
TagBytes(n) == Uint32Bytes(n) \o [j \in 1 .. 12 |-> (29 * j + 7 * n) % 256]

\* the box of the n-th sealed triple
BoxOf(sealed, n) ==
  TagBytes(n) \o StreamXor(sealed[n].msg, sealed[n].nonce, sealed[n].key)

\* the index of a triple in the list, 0 when it is not there
IndexOf(sealed, key, nonce, msg) ==
  IF \E n \in 1 .. Len(sealed) : sealed[n] = [key |-> key, nonce |-> nonce, msg |-> msg]
  THEN CHOOSE n \in 1 .. Len(sealed) :
         sealed[n] = [key |-> key, nonce |-> nonce, msg |-> msg]
  ELSE 0

\* nacl.secretbox as it would be if the box carried no authenticator
secretboxNoTag(msg, nonce, key, sealed) ==
  LET put(n) ==
        IF n = 0
        THEN [ok |-> TRUE, err |-> NoErr,
              box |-> StreamXor(msg, nonce, key),
              sealed |-> Append(sealed, [key |-> key, nonce |-> nonce, msg |-> msg])]
        ELSE [ok |-> TRUE, err |-> NoErr,
              box |-> StreamXor(msg, nonce, key), sealed |-> sealed]
  IN  IF KeyLen(key) # 32 \/ Len(nonce) # 24
      THEN [ok |-> FALSE, box |-> <<>>, sealed |-> sealed, err |-> Err("bad key size", <<>>)]
      ELSE put(IndexOf(sealed, key, nonce, msg))

\* nacl.secretbox(msg, nonce, key): throws on a key that is not 32 bytes or a
\* nonce that is not 24 bytes
secretbox(msg, nonce, key, sealed) ==
  LET put(n) ==
        IF n = 0
        THEN [ok |-> TRUE, err |-> NoErr,
              box |-> TagBytes(Len(sealed) + 1) \o StreamXor(msg, nonce, key),
              sealed |-> Append(sealed, [key |-> key, nonce |-> nonce, msg |-> msg])]
        ELSE [ok |-> TRUE, err |-> NoErr, box |-> BoxOf(sealed, n), sealed |-> sealed]
  IN  IF KeyLen(key) # 32 \/ Len(nonce) # 24
      THEN [ok |-> FALSE, box |-> <<>>, sealed |-> sealed, err |-> Err("bad key size", <<>>)]
      ELSE put(IndexOf(sealed, key, nonce, msg))

\* nacl.secretbox.open as it would be if a box shorter than an authenticator
\* were checked against as many bytes of the authenticator as it has
secretboxOpenShortTag(box, nonce, key, sealed) ==
  LET verdict(n, msg) ==
        IF n = 0 \/ Slice(box, 0, 16) # Slice(TagBytes(n), 0, Len(box))
        THEN [ok |-> FALSE, msg |-> <<>>]
        ELSE [ok |-> TRUE, msg |-> msg]
      verify(msg) == verdict(IndexOf(sealed, key, nonce, msg), msg)
  IN  IF KeyLen(key) # 32 \/ Len(nonce) # 24
      THEN [ok |-> FALSE, msg |-> <<>>]
      ELSE verify(StreamXor(SliceFrom(box, 16), nonce, key))

\* nacl.secretbox.open(box, nonce, key): the message, or null (ok = FALSE)
\* when the box is shorter than an authenticator or its authenticator does
\* not verify
secretboxOpen(box, nonce, key, sealed) ==
  LET verdict(n, msg) ==
        IF n = 0 \/ Slice(box, 0, 16) # TagBytes(n)
        THEN [ok |-> FALSE, msg |-> <<>>]
        ELSE [ok |-> TRUE, msg |-> msg]
      verify(msg) == verdict(IndexOf(sealed, key, nonce, msg), msg)
  IN  IF Len(box) < 16 \/ KeyLen(key) # 32 \/ Len(nonce) # 24
      THEN [ok |-> FALSE, msg |-> <<>>]
      ELSE verify(StreamXor(SliceFrom(box, 16), nonce, key))

(***************************************************************************)
(* Envelope cipher (crypto-v2.ts)                                          *)
(***************************************************************************)
SALT_LEN == 16

NONCE_LEN == 24

\* encryptV2 as it would be if the salt and the nonce were drawn once and
\* kept for later calls
encryptV2StoredSalt(plaintext, password, kdfConfig, seed, cache, avail, sealed) ==
  LET fail(d, e, salt, nonce) ==
        [ok |-> FALSE, val |-> <<>>, err |-> e, cache |-> d.cache,
         sealed |-> sealed, salt |-> salt, nonce |-> nonce,
         config |-> d.config, ran |-> d.ran]
      boxed(d, b, h, salt, nonce) ==
        IF ~b.ok THEN fail(d, b.err, salt, nonce)
        ELSE IF ~h.ok THEN fail(d, h.err, salt, nonce)
        ELSE [ok |-> TRUE, val |-> blobToBase64(createBlob(h.bytes, b.box)),
              err |-> NoErr, cache |-> d.cache, sealed |-> b.sealed,
              salt |-> salt, nonce |-> nonce, config |-> d.config, ran |-> d.ran]
      keyed(d, salt, nonce) ==
        IF ~d.ok THEN fail(d, d.err, salt, nonce)
        ELSE boxed(d, secretbox(Utf8Encode(plaintext), nonce, d.key, sealed),
                   createHeader(d.config, salt, nonce), salt, nonce)
      drawn(salt, nonce) ==
        keyed(deriveKey(password, salt, kdfConfig, cache, avail), salt, nonce)
  IN  drawn(RandomBytes(SALT_LEN, 0, 0), RandomBytes(NONCE_LEN, 0, 1))

\* encryptV2 as it would be if the header were built from the requested
\* configuration instead of the one deriveKey returned
encryptV2RequestedHeader(plaintext, password, kdfConfig, seed, cache, avail, sealed) ==
  LET fail(d, e, salt, nonce) ==
        [ok |-> FALSE, val |-> <<>>, err |-> e, cache |-> d.cache,
         sealed |-> sealed, salt |-> salt, nonce |-> nonce,
         config |-> d.config, ran |-> d.ran]
      boxed(d, b, h, salt, nonce) ==
        IF ~b.ok THEN fail(d, b.err, salt, nonce)
        ELSE IF ~h.ok THEN fail(d, h.err, salt, nonce)
        ELSE [ok |-> TRUE, val |-> blobToBase64(createBlob(h.bytes, b.box)),
              err |-> NoErr, cache |-> d.cache, sealed |-> b.sealed,
              salt |-> salt, nonce |-> nonce, config |-> d.config, ran |-> d.ran]
      keyed(d, salt, nonce) ==
        IF ~d.ok THEN fail(d, d.err, salt, nonce)
        ELSE boxed(d, secretbox(Utf8Encode(plaintext), nonce, d.key, sealed),
                   createHeader(Spread(DEFAULT_ARGON2ID, kdfConfig), salt, nonce), salt, nonce)
      drawn(salt, nonce) ==
        keyed(deriveKey(password, salt, kdfConfig, cache, avail), salt, nonce)
  IN  drawn(RandomBytes(SALT_LEN, seed, 0), RandomBytes(NONCE_LEN, seed, 1))

\* encryptV2(plaintext, password, kdfConfig).  seed is the outcome of the
\* random source; cache, avail and sealed are the state the call reads, and
\* the result carries the state it leaves.  salt, nonce, config and ran
\* report what the call used.
encryptV2(plaintext, password, kdfConfig, seed, cache, avail, sealed) ==
  LET fail(d, e, salt, nonce) ==
        [ok |-> FALSE, val |-> <<>>, err |-> e, cache |-> d.cache,
         sealed |-> sealed, salt |-> salt, nonce |-> nonce,
         config |-> d.config, ran |-> d.ran]
      boxed(d, b, h, salt, nonce) ==
        IF ~b.ok THEN fail(d, b.err, salt, nonce)
        ELSE IF ~h.ok THEN fail(d, h.err, salt, nonce)
        ELSE [ok |-> TRUE, val |-> blobToBase64(createBlob(h.bytes, b.box)),
              err |-> NoErr, cache |-> d.cache, sealed |-> b.sealed,
              salt |-> salt, nonce |-> nonce, config |-> d.config, ran |-> d.ran]
      keyed(d, salt, nonce) ==
        IF ~d.ok THEN fail(d, d.err, salt, nonce)
        ELSE boxed(d, secretbox(Utf8Encode(plaintext), nonce, d.key, sealed),
                   createHeader(d.config, salt, nonce), salt, nonce)
      drawn(salt, nonce) ==
        keyed(deriveKey(password, salt, kdfConfig, cache, avail), salt, nonce)
  IN  drawn(RandomBytes(SALT_LEN, seed, 0), RandomBytes(NONCE_LEN, seed, 1))

\* decryptV2 as it would be if the result of nacl.secretbox.open were decoded
\* without the test for null
decryptV2Unchecked(b64, password, cache, avail, sealed) ==
  LET opened(ph, d, o) ==
        [ok |-> TRUE, val |-> Utf8Decode(o.msg), err |-> NoErr, cache |-> d.cache,
         parsed |-> TRUE, header |-> ph.header, ran |-> d.ran]
      keyed(ph, d) ==
        IF ~d.ok
        THEN [ok |-> FALSE, val |-> <<>>, err |-> d.err, cache |-> d.cache,
              parsed |-> TRUE, header |-> ph.header, ran |-> d.ran]
        ELSE opened(ph, d, secretboxOpen(ph.ciphertext, ph.header.nonce, d.key, sealed))
      parsed(ph) ==
        IF ~ph.ok
        THEN [ok |-> FALSE, val |-> <<>>, err |-> ph.err, cache |-> cache,
              parsed |-> FALSE, header |-> NoHeader, ran |-> "none"]
        ELSE keyed(ph, deriveKey(password, ph.header.salt, ph.header.kdfConfig,
                                 cache, avail))
  IN  parsed(parseHeader(base64ToBlob(b64)))

\* decryptV2 as it would be if the error of a failed authentication quoted
\* the password that was tried
decryptV2PasswordInError(b64, password, cache, avail, sealed) ==
  LET opened(ph, d, o) ==
        IF ~o.ok
        THEN [ok |-> FALSE, val |-> <<>>, cache |-> d.cache,
              err |-> Err("Decryption failed: incorrect password or corrupted data",
                         password),
              parsed |-> TRUE, header |-> ph.header, ran |-> d.ran]
        ELSE [ok |-> TRUE, val |-> Utf8Decode(o.msg), err |-> NoErr, cache |-> d.cache,
              parsed |-> TRUE, header |-> ph.header, ran |-> d.ran]
      keyed(ph, d) ==
        IF ~d.ok
        THEN [ok |-> FALSE, val |-> <<>>, err |-> d.err, cache |-> d.cache,
              parsed |-> TRUE, header |-> ph.header, ran |-> d.ran]
        ELSE opened(ph, d, secretboxOpen(ph.ciphertext, ph.header.nonce, d.key, sealed))
      parsed(ph) ==
        IF ~ph.ok
        THEN [ok |-> FALSE, val |-> <<>>, err |-> ph.err, cache |-> cache,
              parsed |-> FALSE, header |-> NoHeader, ran |-> "none"]
        ELSE keyed(ph, deriveKey(password, ph.header.salt, ph.header.kdfConfig,
                                 cache, avail))
  IN  parsed(parseHeader(base64ToBlob(b64)))

\* decryptV2(b64, password).  header is the parsed header, ran the KDF that
\* produced the key.
decryptV2(b64, password, cache, avail, sealed) ==
  LET opened(ph, d, o) ==
        IF ~o.ok
        THEN [ok |-> FALSE, val |-> <<>>, cache |-> d.cache,
              err |-> Err("Decryption failed: incorrect password or corrupted data", <<>>),
              parsed |-> TRUE, header |-> ph.header, ran |-> d.ran]
        ELSE [ok |-> TRUE, val |-> Utf8Decode(o.msg), err |-> NoErr, cache |-> d.cache,
              parsed |-> TRUE, header |-> ph.header, ran |-> d.ran]
      keyed(ph, d) ==
        IF ~d.ok
        THEN [ok |-> FALSE, val |-> <<>>, err |-> d.err, cache |-> d.cache,
              parsed |-> TRUE, header |-> ph.header, ran |-> d.ran]
        ELSE opened(ph, d, secretboxOpen(ph.ciphertext, ph.header.nonce, d.key, sealed))
      parsed(ph) ==
        IF ~ph.ok
        THEN [ok |-> FALSE, val |-> <<>>, err |-> ph.err, cache |-> cache,
              parsed |-> FALSE, header |-> NoHeader, ran |-> "none"]
        ELSE keyed(ph, deriveKey(password, ph.header.salt, ph.header.kdfConfig,
                                 cache, avail))
  IN  parsed(parseHeader(base64ToBlob(b64)))

\* getKdfInfo as it would be without its try and catch
getKdfInfoUncaught(b64) ==
  LET info(ph) ==
        IF ~ph.ok
        THEN [null |-> FALSE, threw |-> TRUE, kdfId |-> "", config |-> NoCfg]
        ELSE [null |-> FALSE, threw |-> FALSE, kdfId |-> ph.header.kdfId,
              config |-> ph.header.kdfConfig]
  IN  info(parseHeader(base64ToBlob(b64)))

\* getKdfInfo(b64): null when base64ToBlob or parseHeader throws
getKdfInfo(b64) ==
  LET info(ph) ==
        IF ~ph.ok
        THEN [null |-> TRUE, threw |-> FALSE, kdfId |-> "", config |-> NoCfg]
        ELSE [null |-> FALSE, threw |-> FALSE, kdfId |-> ph.header.kdfId,
              config |-> ph.header.kdfConfig]
  IN  info(parseHeader(base64ToBlob(b64)))

(***************************************************************************)
(* Legacy adapter (legacy-crypto.ts)                                       *)
(***************************************************************************)
KEY_LEN == 32

SCRYPT_N == 4096

SCRYPT_r == 8

SCRYPT_p == 1

\* deriveKeyLegacy(password, salt)
deriveKeyLegacy(password, salt) ==
  <<"scrypt", Utf8Encode(password), salt, SCRYPT_N, SCRYPT_r, SCRYPT_p, KEY_LEN>>

\* encryptToBase64Legacy(plaintext, password)
encryptToBase64Legacy(plaintext, password, seed, sealed) ==
  LET boxed(b, salt, nonce) ==
        [ok |-> TRUE, val |-> B64Encode(salt \o nonce \o b.box), err |-> NoErr,
         sealed |-> b.sealed]
      drawn(salt, nonce) ==
        boxed(secretbox(Utf8Encode(plaintext), nonce, deriveKeyLegacy(password, salt),
                        sealed), salt, nonce)
  IN  drawn(RandomBytes(SALT_LEN, seed, 0), RandomBytes(NONCE_LEN, seed, 1))

\* decryptFromBase64(b64, password)
decryptFromBase64(b64, password, sealed) ==
  LET opened(o) ==
        IF ~o.ok
        THEN [ok |-> FALSE, val |-> <<>>,
              err |-> Err("Incorrect password or corrupted data", <<>>)]
        ELSE [ok |-> TRUE, val |-> Utf8Decode(o.msg), err |-> NoErr]
      split(salt, nonce, box) ==
        opened(secretboxOpen(box, nonce, deriveKeyLegacy(password, salt), sealed))
      decoded(all) ==
        IF Len(all) <= SALT_LEN + NONCE_LEN + 16
        THEN [ok |-> FALSE, val |-> <<>>, err |-> Err("Encrypted text too short", <<>>)]
        ELSE split(Slice(all, 0, SALT_LEN), Slice(all, SALT_LEN, SALT_LEN + NONCE_LEN),
                   SliceFrom(all, SALT_LEN + NONCE_LEN))
  IN  decoded(B64Decode(b64))

\* decryptAuto as it would be if the legacy decoder were tried only when the
\* header does not parse
decryptAutoFormatOnly(b64, password, cache, avail, sealed) ==
  LET legacy(v, l) ==
        IF l.ok
        THEN [ok |-> TRUE, val |-> l.val, err |-> NoErr, cache |-> v.cache,
              calls |-> <<"decryptV2", "decryptFromBase64">>, v2 |-> v]
        ELSE [ok |-> FALSE, val |-> <<>>, cache |-> v.cache,
              err |-> Err("Decryption failed: incorrect password or unsupported format",
                          <<>>),
              calls |-> <<"decryptV2", "decryptFromBase64">>, v2 |-> v]
      modern(v) ==
        IF v.ok
        THEN [ok |-> TRUE, val |-> v.val, err |-> NoErr, cache |-> v.cache,
              calls |-> <<"decryptV2">>, v2 |-> v]
        ELSE IF v.parsed
        THEN [ok |-> FALSE, val |-> <<>>, cache |-> v.cache,
              err |-> Err("Decryption failed: incorrect password or unsupported format",
                          <<>>),
              calls |-> <<"decryptV2">>, v2 |-> v]
        ELSE legacy(v, decryptFromBase64(b64, password, sealed))
  IN  modern(decryptV2(b64, password, cache, avail, sealed))

\* decryptAuto as it would be if the legacy decoder's error were rethrown
decryptAutoRethrow(b64, password, cache, avail, sealed) ==
  LET legacy(v, l) ==
        IF l.ok
        THEN [ok |-> TRUE, val |-> l.val, err |-> NoErr, cache |-> v.cache,
              calls |-> <<"decryptV2", "decryptFromBase64">>, v2 |-> v]
        ELSE [ok |-> FALSE, val |-> <<>>, cache |-> v.cache, err |-> l.err,
              calls |-> <<"decryptV2", "decryptFromBase64">>, v2 |-> v]
      modern(v) ==
        IF v.ok
        THEN [ok |-> TRUE, val |-> v.val, err |-> NoErr, cache |-> v.cache,
              calls |-> <<"decryptV2">>, v2 |-> v]
        ELSE legacy(v, decryptFromBase64(b64, password, sealed))
  IN  modern(decryptV2(b64, password, cache, avail, sealed))

\* decryptAuto(b64, password).  calls lists the decoders invoked, in order;
\* v2 is what decryptV2 returned.
decryptAuto(b64, password, cache, avail, sealed) ==
  LET legacy(v, l) ==
        IF l.ok
        THEN [ok |-> TRUE, val |-> l.val, err |-> NoErr, cache |-> v.cache,
              calls |-> <<"decryptV2", "decryptFromBase64">>, v2 |-> v]
        ELSE [ok |-> FALSE, val |-> <<>>, cache |-> v.cache,
              err |-> Err("Decryption failed: incorrect password or unsupported format",
                          <<>>),
              calls |-> <<"decryptV2", "decryptFromBase64">>, v2 |-> v]
      modern(v) ==
        IF v.ok
        THEN [ok |-> TRUE, val |-> v.val, err |-> NoErr, cache |-> v.cache,
              calls |-> <<"decryptV2">>, v2 |-> v]
        ELSE legacy(v, decryptFromBase64(b64, password, sealed))
  IN  modern(decryptV2(b64, password, cache, avail, sealed))

(***************************************************************************)
(* Inputs that are explored                                                *)
(***************************************************************************)
\* 'a' and U+FEFF
TextChars == {97, BOM}

RECURSIVE StringsUpTo(_, _)
StringsUpTo(chars, n) ==
  IF n = 0 THEN {<<>>}
  ELSE LET shorter == StringsUpTo(chars, n - 1)
       IN  shorter \cup {Append(s, c) : s \in {x \in shorter : Len(x) = n - 1}, c \in chars}

Plaintexts == StringsUpTo(TextChars, MaxTextLen)

\* '' and 'p'
Passwords == {<<>>, <<112>>}

\* the kdfConfig arguments of encryptV2: none, Argon2id by name, scrypt by
\* name with its own N
Overrides == {NoCfg, [id |-> "argon2id"], [id |-> "scrypt", N |-> 16]}

(***************************************************************************)
(* State                                                                   *)
(***************************************************************************)
VARIABLES
  argon2Available,  \* the environment can load hash-wasm's argon2id
  argon2,           \* kdf.ts: the module variable argon2 is set
  boxes,            \* the triples sealed by nacl.secretbox so far
  blob,             \* the blob under study and how it was made
  res,              \* the last decryption call and what it returned
  \* CryptoVault.tsx: the state of the component
  seedPhrase, password1, password2, password3, encryptedOutput, decryptedSeed,
  isLoading, activeTab, decryptStep, tempData1, tempData2,
  pending,          \* the handler that is suspended at its await, if any
  alert,            \* the last Alert.alert shown
  clipboard,        \* the system clipboard
  vault             \* the triple encryption under study and how it was made

cipherVars == <<blob, res>>

vaultVars ==
  <<seedPhrase, password1, password2, password3, encryptedOutput, decryptedSeed,
    isLoading, activeTab, decryptStep, tempData1, tempData2, pending, alert,
    clipboard, vault>>

vars == <<argon2Available, argon2, boxes, cipherVars, vaultVars>>

NoBlob ==
  [kind |-> "none", b64 |-> <<>>, plaintext |-> <<>>, password |-> <<>>,
   cfg |-> NoCfg, avail |-> FALSE, flipped |-> FALSE,
   salt |-> <<>>, nonce |-> <<>>, config |-> NoCfg, ran |-> "none"]

NoRes == [op |-> "none", password |-> <<>>, avail |-> FALSE]

NoPending ==
  [kind |-> "none", step |-> 0, input |-> <<>>, password |-> <<>>,
   seed |-> <<>>, pass1 |-> <<>>, pass2 |-> <<>>, pass3 |-> <<>>]

NoAlert == [title |-> "", body |-> "", step |-> 0]

NoVault ==
  [made |-> FALSE, secret |-> <<>>, pass1 |-> <<>>, pass2 |-> <<>>,
   pass3 |-> <<>>, layer1 |-> <<>>, layer2 |-> <<>>, out |-> <<>>]

Init ==
  /\ argon2Available \in BOOLEAN
  /\ argon2 = FALSE
  /\ boxes = <<>>
  /\ blob = NoBlob
  /\ res = NoRes
  /\ seedPhrase = <<>> /\ password1 = <<>> /\ password2 = <<>> /\ password3 = <<>>
  /\ encryptedOutput = <<>> /\ decryptedSeed = <<>>
  /\ isLoading = FALSE
  /\ activeTab = "encrypt"
  /\ decryptStep = 1
  /\ tempData1 = <<>> /\ tempData2 = <<>>
  /\ pending = NoPending
  /\ alert = NoAlert
  /\ clipboard = <<>>
  /\ vault = NoVault

(***************************************************************************)
(* Operations on one blob                                                  *)
(***************************************************************************)
\* a call of encryptV2 that returns
EncryptV2(plaintext, password, cfg, seed) ==
  /\ blob.kind = "none"
  /\ \E e \in {encryptV2(plaintext, password, cfg, seed, argon2, argon2Available, boxes)} :
       /\ e.ok
       /\ blob' = [kind |-> "v2", b64 |-> e.val, plaintext |-> plaintext,
                   password |-> password, cfg |-> cfg, avail |-> argon2Available,
                   flipped |-> FALSE, salt |-> e.salt, nonce |-> e.nonce,
                   config |-> e.config, ran |-> e.ran]
       /\ argon2' = e.cache
       /\ boxes' = e.sealed
  /\ res' = NoRes
  /\ UNCHANGED <<argon2Available, vaultVars>>

\* a call of encryptToBase64Legacy
EncryptLegacy(plaintext, password, seed) ==
  /\ blob.kind = "none"
  /\ \E e \in {encryptToBase64Legacy(plaintext, password, seed, boxes)} :
       /\ blob' = [NoBlob EXCEPT !.kind = "legacy", !.b64 = e.val,
                                 !.plaintext = plaintext, !.password = password,
                                 !.avail = argon2Available]
       /\ boxes' = e.sealed
  /\ res' = NoRes
  /\ UNCHANGED <<argon2Available, argon2, vaultVars>>

\* the blob is carried to another runtime, where Argon2id is available or not
Relaunch(avail) ==
  /\ blob.kind # "none"
  /\ res.op = "none"
  /\ (avail # argon2Available \/ argon2)
  /\ argon2Available' = avail
  /\ argon2' = FALSE
  /\ res' = NoRes
  /\ UNCHANGED <<boxes, blob, vaultVars>>

\* a call of decryptV2 on the blob
DecryptV2(password) ==
  /\ blob.kind # "none"
  /\ \E d \in {decryptV2(blob.b64, password, argon2, argon2Available, boxes)} :
       /\ res' = [op |-> "decryptV2", password |-> password,
                  avail |-> argon2Available, out |-> d]
       /\ argon2' = d.cache
  /\ UNCHANGED <<argon2Available, boxes, blob, vaultVars>>

\* a call of decryptAuto on the blob
DecryptAuto(password) ==
  /\ blob.kind # "none"
  /\ \E d \in {decryptAuto(blob.b64, password, argon2, argon2Available, boxes)} :
       /\ res' = [op |-> "decryptAuto", password |-> password,
                  avail |-> argon2Available, out |-> d]
       /\ argon2' = d.cache
  /\ UNCHANGED <<argon2Available, boxes, blob, vaultVars>>

\* bytes with bit k of byte i (1-based) inverted
FlipBit(bytes, i, k) == [bytes EXCEPT ![i] = FlipBitOfByte(bytes[i], k)]

\* the blob reaches decryptV2 with one bit inverted (bit k of byte i) and is
\* decrypted with the password it was encrypted with
DecryptV2Flipped(i, k) ==
  /\ blob.kind = "v2"
  /\ res.op = "none"
  /\ \E bytes \in {base64ToBlob(blob.b64)} :
       /\ i \in 1 .. Len(bytes)
       /\ \E flipped \in {blobToBase64(FlipBit(bytes, i, k))} :
          \E d \in {decryptV2(flipped, blob.password, argon2, argon2Available, boxes)} :
            /\ res' = [op |-> "decryptV2Flipped", password |-> blob.password,
                       avail |-> argon2Available, out |-> d, byte |-> i, bit |-> k,
                       b64 |-> flipped]
            /\ argon2' = d.cache
  /\ UNCHANGED <<argon2Available, boxes, blob, vaultVars>>

Next ==
  \/ \E p \in Plaintexts, pw \in Passwords, cfg \in Overrides, seed \in Seeds :
       EncryptV2(p, pw, cfg, seed)
  \/ \E p \in Plaintexts, pw \in Passwords, seed \in Seeds : EncryptLegacy(p, pw, seed)
  \/ \E avail \in BOOLEAN : Relaunch(avail)
  \/ \E pw \in Passwords : DecryptV2(pw)
  \/ \E pw \in Passwords : DecryptAuto(pw)

Spec == Init /\ [][Next]_vars

\* the longest blob that is explored: header, authenticator, three bytes for
\* each character of the plaintext
MaxBlobLen == HEADER_SIZE + 16 + 3 * MaxTextLen

NextTamper ==
  \/ \E p \in Plaintexts, pw \in Passwords, seed \in Seeds : EncryptV2(p, pw, NoCfg, seed)
  \/ \E avail \in BOOLEAN : Relaunch(avail)
  \/ \E i \in 1 .. MaxBlobLen, k \in 0 .. 7 : DecryptV2Flipped(i, k)

SpecTamper == Init /\ [][NextTamper]_vars

\* the blob reaches decryptAuto with one bit inverted (bit k of byte i) and
\* is decrypted with the password it was encrypted with
DecryptAutoFlipped(i, k) ==
  /\ blob.kind = "v2"
  /\ res.op = "none"
  /\ \E bytes \in {base64ToBlob(blob.b64)} :
       /\ i \in 1 .. Len(bytes)
       /\ \E flipped \in {blobToBase64(FlipBit(bytes, i, k))} :
          \E d \in {decryptAuto(flipped, blob.password, argon2, argon2Available, boxes)} :
            /\ res' = [op |-> "decryptAutoFlipped", password |-> blob.password,
                       avail |-> argon2Available, out |-> d, byte |-> i, bit |-> k,
                       b64 |-> flipped]
            /\ argon2' = d.cache
  /\ UNCHANGED <<argon2Available, boxes, blob, vaultVars>>

NextAutoTamper ==
  \/ \E p \in Plaintexts, pw \in Passwords, seed \in Seeds : EncryptV2(p, pw, NoCfg, seed)
  \/ \E avail \in BOOLEAN : Relaunch(avail)
  \/ \E i \in 1 .. MaxBlobLen, k \in 0 .. 7 : DecryptAutoFlipped(i, k)

SpecAutoTamper == Init /\ [][NextAutoTamper]_vars

(***************************************************************************)
(* Layered encryption orchestrator (CryptoVault.tsx)                       *)
(***************************************************************************)
\* tripleEncryptV2 as it would be if pass3 were applied first and pass1 last
tripleEncryptV2Reversed(seed, pass1, pass2, pass3, s1, s2, s3, cache, avail, sealed) ==
  LET result(last, layer1, layer2) ==
        [ok |-> last.ok, val |-> last.val, err |-> last.err, cache |-> last.cache,
         sealed |-> last.sealed, layer1 |-> layer1.val, layer2 |-> layer2.val]
      second(layer1, layer2) ==
        IF ~layer2.ok THEN result(layer2, layer1, layer2)
        ELSE result(encryptV2(layer2.val, pass1, NoCfg, s3, layer2.cache, avail,
                              layer2.sealed), layer1, layer2)
      first(layer1) ==
        IF ~layer1.ok THEN result(layer1, layer1, layer1)
        ELSE second(layer1, encryptV2(layer1.val, pass2, NoCfg, s2, layer1.cache, avail,
                                      layer1.sealed))
  IN  first(encryptV2(seed, pass3, NoCfg, s1, cache, avail, sealed))

\* tripleEncryptV2 as it would be if the second layer encrypted the seed
\* phrase again instead of the first layer
tripleEncryptV2Flat(seed, pass1, pass2, pass3, s1, s2, s3, cache, avail, sealed) ==
  LET result(last, layer1, layer2) ==
        [ok |-> last.ok, val |-> last.val, err |-> last.err, cache |-> last.cache,
         sealed |-> last.sealed, layer1 |-> layer1.val, layer2 |-> layer2.val]
      second(layer1, layer2) ==
        IF ~layer2.ok THEN result(layer2, layer1, layer2)
        ELSE result(encryptV2(layer2.val, pass3, NoCfg, s3, layer2.cache, avail,
                              layer2.sealed), layer1, layer2)
      first(layer1) ==
        IF ~layer1.ok THEN result(layer1, layer1, layer1)
        ELSE second(layer1, encryptV2(seed, pass2, NoCfg, s2, layer1.cache, avail,
                                      layer1.sealed))
  IN  first(encryptV2(seed, pass1, NoCfg, s1, cache, avail, sealed))

\* tripleEncryptV2(seedPhrase, pass1, pass2, pass3); s1, s2, s3 are the
\* outcomes of the random source in the three encryptV2 calls
tripleEncryptV2(seed, pass1, pass2, pass3, s1, s2, s3, cache, avail, sealed) ==
  LET result(last, layer1, layer2) ==
        [ok |-> last.ok, val |-> last.val, err |-> last.err, cache |-> last.cache,
         sealed |-> last.sealed, layer1 |-> layer1.val, layer2 |-> layer2.val]
      second(layer1, layer2) ==
        IF ~layer2.ok THEN result(layer2, layer1, layer2)
        ELSE result(encryptV2(layer2.val, pass3, NoCfg, s3, layer2.cache, avail,
                              layer2.sealed), layer1, layer2)
      first(layer1) ==
        IF ~layer1.ok THEN result(layer1, layer1, layer1)
        ELSE second(layer1, encryptV2(layer1.val, pass2, NoCfg, s2, layer1.cache, avail,
                                      layer1.sealed))
  IN  first(encryptV2(seed, pass1, NoCfg, s1, cache, avail, sealed))

\* what is typed into the fields of the encrypt form: 'a' and U+FEFF 'a' as
\* seed phrase, 'x' as password 1, 'y' as password 2, 'z' as password 3
SeedInputs == {<<97>>, <<BOM, 97>>}

Pass1Inputs == {<<120>>}

Pass2Inputs == {<<121>>}

Pass3Inputs == {<<122>>}

\* what is typed into the password field of a recovery step: 'x', 'y' or 'z'
StepInputs == {<<120>>, <<121>>, <<122>>}

\* the outcomes of the random source when two calls may draw differently
FreshSeeds == 0 .. MaxSeed

\* uint32 parameter values: 0, 1, 0x01020304 and 0xffffffff
HeaderParams == {0, 1, 16909060, -1}

\* the KdfConfig values of either variant: its three parameters, the fields
\* of the other variant zero, a 32-byte key
HeaderConfigs ==
  {[id |-> "argon2id", m |-> a, t |-> b, p |-> c, N |-> 0, r |-> 0, s_p |-> 0,
    keyLen |-> 32] : a \in HeaderParams, b \in HeaderParams, c \in HeaderParams}
  \cup
  {[id |-> "scrypt", N |-> a, r |-> b, s_p |-> c, m |-> 0, t |-> 0, p |-> 0,
    keyLen |-> 32] : a \in HeaderParams, b \in HeaderParams, c \in HeaderParams}

\* ciphertexts, the empty one included
HeaderCiphertexts == StringsUpTo({0, 255}, MaxTextLen)

\* parseHeader(createBlob(createHeader(cfg, salt, nonce), c))
HeaderRoundTrip(cfg, salt, nonce, c) ==
  /\ blob.kind = "none" /\ res.op = "none" /\ ~vault.made
  /\ \E h \in {createHeader(cfg, salt, nonce)} :
       /\ h.ok
       /\ res' = [op |-> "parseHeader", password |-> <<>>, avail |-> argon2Available,
                  cfg |-> cfg, salt |-> salt, nonce |-> nonce, ciphertext |-> c,
                  bytes |-> h.bytes,
                  out |-> parseHeader(createBlob(h.bytes, c))]
  /\ UNCHANGED <<argon2Available, argon2, boxes, blob, vaultVars>>

NextHeader ==
  \E cfg \in HeaderConfigs, s \in FreshSeeds, n \in FreshSeeds, c \in HeaderCiphertexts :
    HeaderRoundTrip(cfg, RandomBytes(SALT_LEN, s, 0), RandomBytes(NONCE_LEN, n, 1), c)

SpecHeader == Init /\ [][NextHeader]_vars

(***************************************************************************)
(* The header codec on blobs of any content                                *)
(***************************************************************************)
\* bytes 0-2 of the blobs handed to parseHeader: "SS1", "SS2", "ss1" and a
\* byte-order mark
CodecMagics == {<<83, 83, 49>>, <<83, 83, 50>>, <<115, 115, 49>>, <<239, 187, 191>>}

\* their version byte
CodecVersions == {0, 1, 2, 255}

\* their KDF id byte
CodecKdfBytes == {0, 1, 2, 3, 255}

\* the lengths they are cut to, when they are longer
CodecLengths == {0, 2, 4, 5, HEADER_SIZE - 1, HEADER_SIZE, HEADER_SIZE + MaxTextLen}

\* what follows the KDF id byte: parameters, salt, nonce and a ciphertext
CodecTails ==
  {SliceFrom(createHeader(MOBILE_SCRYPT, RandomBytes(SALT_LEN, 0, 0),
                          RandomBytes(NONCE_LEN, 0, 1)).bytes, 5) \o c :
     c \in HeaderCiphertexts}

\* the blobs handed to parseHeader
CodecBlobs ==
  {Slice(m \o <<v, k>> \o t, 0, n) :
     m \in CodecMagics, v \in CodecVersions, k \in CodecKdfBytes,
     t \in CodecTails, n \in CodecLengths}

\* a call of parseHeader(bytes)
ParseHeader(bytes) ==
  /\ blob.kind = "none" /\ res.op = "none" /\ ~vault.made
  /\ res' = [op |-> "parseBlob", password |-> <<>>, avail |-> argon2Available,
             bytes |-> bytes, out |-> parseHeader(bytes)]
  /\ UNCHANGED <<argon2Available, argon2, boxes, blob, vaultVars>>

\* the configurations handed to createHeader: those of the id table and one
\* whose id is outside it
CodecConfigs ==
  HeaderConfigs
  \cup {[id |-> "pbkdf2", m |-> 1, t |-> 1, p |-> 1, N |-> 1, r |-> 1, s_p |-> 1,
         keyLen |-> 32]}

\* the salts handed to createHeader: 16 random bytes, or none
CodecSalts == {RandomBytes(SALT_LEN, 0, 0), <<>>}

\* the nonces handed to createHeader: 24 random bytes, or one byte more
CodecNonces == {RandomBytes(NONCE_LEN, 0, 1), RandomBytes(NONCE_LEN, 0, 1) \o <<7>>}

\* a call of createHeader(cfg, salt, nonce)
CreateHeader(cfg, salt, nonce) ==
  /\ blob.kind = "none" /\ res.op = "none" /\ ~vault.made
  /\ res' = [op |-> "createHeader", password |-> <<>>, avail |-> argon2Available,
             cfg |-> cfg, salt |-> salt, nonce |-> nonce,
             out |-> createHeader(cfg, salt, nonce)]
  /\ UNCHANGED <<argon2Available, argon2, boxes, blob, vaultVars>>

\* a call of getKdfInfo on the base64 text of bytes, or on text itself when
\* asked to
GetKdfInfo(bytes, asText) ==
  /\ blob.kind = "none" /\ res.op = "none" /\ ~vault.made
  /\ \E b64 \in {IF asText THEN bytes ELSE blobToBase64(bytes)} :
       res' = [op |-> "getKdfInfo", password |-> <<>>, avail |-> argon2Available,
               b64 |-> b64, out |-> getKdfInfo(b64)]
  /\ UNCHANGED <<argon2Available, argon2, boxes, blob, vaultVars>>

\* texts that are no base64 of a blob: the empty one, "!!" and "SS1"
CodecTexts == {<<>>, <<33, 33>>, <<83, 83, 49>>}

NextCodec ==
  \/ \E bytes \in CodecBlobs : ParseHeader(bytes)
  \/ \E bytes \in CodecBlobs : GetKdfInfo(bytes, FALSE)
  \/ \E text \in CodecTexts : GetKdfInfo(text, TRUE)
  \/ \E cfg \in CodecConfigs, salt \in CodecSalts, nonce \in CodecNonces :
       CreateHeader(cfg, salt, nonce)

SpecCodec == Init /\ [][NextCodec]_vars

(***************************************************************************)
(* encryptV2 on plaintexts of several sizes                                *)
(***************************************************************************)
\* "hello world"
HelloWorld == <<104, 101, 108, 108, 111, 32, 119, 111, 114, 108, 100>>

\* plaintexts of 0, 1, 2, 3 and 11 UTF-8 bytes
SizePlaintexts == Plaintexts \cup {<<97, 97>>, <<233>>, HelloWorld}

NextSize ==
  \E p \in SizePlaintexts, pw \in Passwords, cfg \in Overrides, seed \in FreshSeeds :
    EncryptV2(p, pw, cfg, seed)

SpecSize == Init /\ [][NextSize]_vars

(***************************************************************************)
(* decryptV2 on blobs that were cut short                                  *)
(***************************************************************************)
\* the first len bytes of the blob reach decryptV2
DecryptV2Truncated(len, password) ==
  /\ blob.kind = "v2"
  /\ res.op = "none"
  /\ \E bytes \in {base64ToBlob(blob.b64)} :
       /\ len < Len(bytes)
       /\ \E cut \in {blobToBase64(Slice(bytes, 0, len))} :
          \E d \in {decryptV2(cut, password, argon2, argon2Available, boxes)} :
            /\ res' = [op |-> "decryptV2Truncated", password |-> password,
                       avail |-> argon2Available, out |-> d, len |-> len,
                       b64 |-> cut]
            /\ argon2' = d.cache
  /\ UNCHANGED <<argon2Available, boxes, blob, vaultVars>>

NextShort ==
  \/ \E p \in Plaintexts, pw \in Passwords, cfg \in Overrides, seed \in Seeds :
       EncryptV2(p, pw, cfg, seed)
  \/ \E len \in 0 .. (MaxBlobLen - 1), pw \in Passwords : DecryptV2Truncated(len, pw)

SpecShort == Init /\ [][NextShort]_vars

(***************************************************************************)
(* Two calls in flight at once, interleaved at their awaits                *)
(***************************************************************************)
NoOut == [ok |-> FALSE, val |-> <<>>, err |-> NoErr, config |-> NoCfg, sealed |-> <<>>]

\* the calls that are issued: what is called and with which kdfConfig
CallKinds ==
  {[kind |-> "deriveKey", cfg |-> NoCfg],
   [kind |-> "deriveKey", cfg |-> [id |-> "scrypt", N |-> 16]],
   [kind |-> "encryptV2", cfg |-> NoCfg],
   [kind |-> "decryptV2", cfg |-> NoCfg]}

\* the i-th call in flight, about to run: decryptV2 is given the blob and its
\* password, the others a password and a plaintext or salt of their own
NewCall(k, i) ==
  [kind |-> k.kind, cfg |-> k.cfg, pc |-> "start",
   text |-> IF k.kind = "decryptV2" THEN blob.b64 ELSE <<97>>,
   password |-> IF k.kind = "decryptV2" THEN blob.password ELSE <<112>>,
   salt |-> RandomBytes(SALT_LEN, i - 1, 0), seed |-> i - 1,
   lib |-> FALSE, imported |-> FALSE, out |-> NoOut]

\* what call c returns when loadArgon2 finds the cache and the import as
\* given, the cipher having sealed what is in sealed
CallResult(c, cache, avail, sealed) ==
  LET ofKey(d) ==
        [ok |-> d.ok, val |-> d.key, err |-> d.err, config |-> d.config,
         sealed |-> sealed]
      ofEncrypt(e) ==
        [ok |-> e.ok, val |-> e.val, err |-> e.err, config |-> e.config,
         sealed |-> e.sealed]
      ofDecrypt(d) ==
        [ok |-> d.ok, val |-> d.val, err |-> d.err, config |-> d.header.kdfConfig,
         sealed |-> sealed]
  IN  IF c.kind = "deriveKey"
      THEN ofKey(deriveKey(c.password, c.salt, c.cfg, cache, avail))
      ELSE IF c.kind = "encryptV2"
      THEN ofEncrypt(encryptV2(c.text, c.password, c.cfg, c.seed, cache, avail, sealed))
      ELSE ofDecrypt(decryptV2(c.text, c.password, cache, avail, sealed))

\* whether call c reaches loadArgon2
NeedsArgon2(c) ==
  LET ofHeader(ph) == ph.ok /\ ph.header.kdfConfig.id = "argon2id"
  IN  IF c.kind = "decryptV2" THEN ofHeader(parseHeader(base64ToBlob(c.text)))
      ELSE Spread(DEFAULT_ARGON2ID, c.cfg).id = "argon2id" \/ CfgId(c.cfg) = ""

\* two calls are issued
RaceStart(k1, k2) ==
  /\ blob.kind = "v2" /\ res.op = "none"
  /\ res' = [op |-> "race", password |-> <<>>, avail |-> argon2Available,
             cache0 |-> argon2, calls |-> <<NewCall(k1, 1), NewCall(k2, 2)>>]
  /\ UNCHANGED <<argon2Available, argon2, boxes, blob, vaultVars>>

\* call i runs up to its next await: a call that reaches loadArgon2 reads the
\* cache, and starts import('hash-wasm') when the cache is empty
RaceCheck(i) ==
  /\ res.op = "race" /\ res.calls[i].pc = "start"
  /\ res' = [res EXCEPT !.calls[i].pc =
                          IF NeedsArgon2(res.calls[i]) /\ ~argon2 THEN "import" ELSE "kdf",
                        !.calls[i].lib = NeedsArgon2(res.calls[i]) /\ argon2]
  /\ UNCHANGED <<argon2Available, argon2, boxes, blob, vaultVars>>

\* the import of call i resolves
RaceImport(i) ==
  /\ res.op = "race" /\ res.calls[i].pc = "import"
  /\ \E r \in {importResolved(argon2, argon2Available)} :
       /\ argon2' = r.cache
       /\ res' = [res EXCEPT !.calls[i].pc = "kdf", !.calls[i].lib = r.lib,
                             !.calls[i].imported = TRUE]
  /\ UNCHANGED <<argon2Available, boxes, blob, vaultVars>>

\* the key derivation of call i resolves and the call runs to its end
RaceDerive(i) ==
  /\ res.op = "race" /\ res.calls[i].pc = "kdf"
  /\ \E o \in {CallResult(res.calls[i], res.calls[i].lib, res.calls[i].lib, boxes)} :
       /\ boxes' = o.sealed
       /\ res' = [res EXCEPT !.calls[i].pc = "done", !.calls[i].out = o]
  /\ UNCHANGED <<argon2Available, argon2, blob, vaultVars>>

NextRace ==
  \/ \E p \in Plaintexts, pw \in Passwords, seed \in Seeds : EncryptV2(p, pw, NoCfg, seed)
  \/ \E avail \in BOOLEAN : Relaunch(avail)
  \/ \E k1 \in CallKinds, k2 \in CallKinds : RaceStart(k1, k2)
  \/ \E i \in 1 .. 2 : RaceCheck(i)
  \/ \E i \in 1 .. 2 : RaceImport(i)
  \/ \E i \in 1 .. 2 : RaceDerive(i)

SpecRace == Init /\ [][NextRace]_vars

(***************************************************************************)
(* deriveKey on requests of every shape                                    *)
(***************************************************************************)
\* the cfg argument of deriveKey: nothing, an id alone, an id with some or
\* all of its parameters, parameters without an id, parameters of the other
\* KDF, and scrypt parameters that scrypt rejects
KdfRequests ==
  {NoCfg,
   [id |-> "argon2id"],
   [id |-> "argon2id", m |-> 64, t |-> 3, p |-> 2],
   [id |-> "argon2id", N |-> 16, r |-> 1, s_p |-> 2, keyLen |-> 16],
   [m |-> 64],
   [t |-> 3, N |-> 16, r |-> 1],
   [id |-> "scrypt"],
   [id |-> "scrypt", N |-> 16],
   [id |-> "scrypt", r |-> 1, s_p |-> 2],
   [id |-> "scrypt", N |-> 16, r |-> 1, s_p |-> 2, m |-> 64],
   [id |-> "scrypt", N |-> 3]}

\* a call of deriveKey(password, salt, cfg)
DeriveKey(password, salt, cfg) ==
  /\ blob.kind = "none" /\ ~vault.made
  /\ \E d \in {deriveKey(password, salt, cfg, argon2, argon2Available)} :
       /\ res' = [op |-> "deriveKey", password |-> password,
                  avail |-> argon2Available, cache0 |-> argon2, salt |-> salt,
                  cfg |-> cfg, out |-> d]
       /\ argon2' = d.cache
  /\ UNCHANGED <<argon2Available, boxes, blob, vaultVars>>

NextKdf ==
  \E pw \in Passwords, seed \in FreshSeeds, cfg \in KdfRequests :
    DeriveKey(pw, RandomBytes(SALT_LEN, seed, 0), cfg)

SpecKdf == Init /\ [][NextKdf]_vars

(***************************************************************************)
(* Every operation that can throw                                          *)
(***************************************************************************)
\* kdfConfig arguments that make encryptV2 throw: scrypt parameters that
\* scrypt rejects, and a key length the cipher rejects
BadOverrides == {[id |-> "scrypt", N |-> 3], [keyLen |-> 16]}

\* a call of encryptV2 that returns or throws
TryEncryptV2(plaintext, password, cfg, seed) ==
  /\ blob.kind = "none" /\ res.op = "none" /\ ~vault.made
  /\ \E e \in {encryptV2(plaintext, password, cfg, seed, argon2, argon2Available, boxes)} :
       /\ res' = [op |-> "tryEncryptV2", password |-> password,
                  avail |-> argon2Available, plaintext |-> plaintext, cfg |-> cfg,
                  out |-> e]
       /\ argon2' = e.cache
       /\ boxes' = e.sealed
  /\ UNCHANGED <<argon2Available, blob, vaultVars>>

\* a call of decryptFromBase64 on the blob
DecryptLegacy(password) ==
  /\ blob.kind # "none"
  /\ res' = [op |-> "decryptFromBase64", password |-> password,
             avail |-> argon2Available,
             out |-> decryptFromBase64(blob.b64, password, boxes)]
  /\ UNCHANGED <<argon2Available, argon2, boxes, blob, vaultVars>>

\* the bytes that are altered on the way to decryptV2: magic, version, KDF
\* id, the first parameter byte and the first byte of the authenticator
ErrorBytes == (1 .. 6) \cup {HEADER_SIZE + 1}

NextErrors ==
  \/ /\ res.op = "none"
     /\ \E p \in Plaintexts, pw \in Passwords, seed \in Seeds :
          EncryptV2(p, pw, NoCfg, seed)
  \/ /\ res.op = "none"
     /\ \E p \in Plaintexts, pw \in Passwords, seed \in Seeds :
          EncryptLegacy(p, pw, seed)
  \/ \E p \in Plaintexts, pw \in Passwords, cfg \in BadOverrides, seed \in Seeds :
       TryEncryptV2(p, pw, cfg, seed)
  \/ /\ res.op = "none"
     /\ \E pw \in Passwords, cfg \in KdfRequests :
          DeriveKey(pw, RandomBytes(SALT_LEN, 0, 0), cfg)
  \/ /\ res.op = "none"
     /\ \E pw \in Passwords : DecryptV2(pw)
  \/ /\ res.op = "none"
     /\ \E pw \in Passwords : DecryptAuto(pw)
  \/ /\ res.op = "none"
     /\ \E pw \in Passwords : DecryptLegacy(pw)
  \/ \E i \in ErrorBytes, k \in 0 .. 7 : DecryptV2Flipped(i, k)
  \/ /\ blob.kind = "none" /\ res.op = "none"
     /\ \E bytes \in CodecBlobs : ParseHeader(bytes)

SpecErrors == Init /\ [][NextErrors]_vars

\* the KDF configurations written into the header of a blob that is
\* rewritten: the defaults of either KDF, the scrypt fallback, and other
\* parameters of either KDF
RewriteConfigs ==
  {DEFAULT_ARGON2ID, DEFAULT_SCRYPT, MOBILE_SCRYPT,
   [DEFAULT_ARGON2ID EXCEPT !.m = 1024, !.t = 1],
   [DEFAULT_SCRYPT EXCEPT !.N = 16]}

\* the blob reaches decryptV2 with the KDF id, the KDF parameters, the salt
\* and the nonce of its header written anew (s and n are outcomes of a random
\* source; the salt and the nonce are kept when keepSalt and keepNonce say
\* so), the ciphertext as it was, and is decrypted with the password it was
\* encrypted with
DecryptV2Rewritten(cfg, keepSalt, s, keepNonce, n) ==
  /\ blob.kind = "v2"
  /\ res.op = "none"
  /\ \E h \in {createHeader(cfg,
                            IF keepSalt THEN blob.salt ELSE RandomBytes(SALT_LEN, s, 2),
                            IF keepNonce THEN blob.nonce
                            ELSE RandomBytes(NONCE_LEN, n, 3))} :
       /\ h.ok
       /\ \E rewritten \in {blobToBase64(createBlob(h.bytes,
                               SliceFrom(base64ToBlob(blob.b64), HEADER_SIZE)))} :
          \E d \in {decryptV2(rewritten, blob.password, argon2, argon2Available, boxes)} :
            /\ res' = [op |-> "decryptV2Rewritten", password |-> blob.password,
                       avail |-> argon2Available, out |-> d, b64 |-> rewritten,
                       header |-> h.bytes]
            /\ argon2' = d.cache
  /\ UNCHANGED <<argon2Available, boxes, blob, vaultVars>>

NextRewrite ==
  \/ \E p \in Plaintexts, pw \in Passwords, cfg \in Overrides, seed \in Seeds :
       EncryptV2(p, pw, cfg, seed)
  \/ \E avail \in BOOLEAN : Relaunch(avail)
  \/ \E cfg \in RewriteConfigs, keepSalt \in BOOLEAN, s \in Seeds,
        keepNonce \in BOOLEAN, n \in Seeds :
       DecryptV2Rewritten(cfg, keepSalt, s, keepNonce, n)

SpecRewrite == Init /\ [][NextRewrite]_vars

\* the kdfConfig arguments of encryptV2 that are tried for a round trip:
\* those of KdfRequests, and key lengths given with and without an id
OverrideRequests ==
  KdfRequests \cup
  {[keyLen |-> 32], [keyLen |-> 16], [id |-> "argon2id", keyLen |-> 16],
   [id |-> "scrypt", N |-> 16, keyLen |-> 32], [id |-> "scrypt", keyLen |-> 64]}

NextOverride ==
  \/ \E p \in Plaintexts, pw \in Passwords, cfg \in OverrideRequests, seed \in Seeds :
       EncryptV2(p, pw, cfg, seed)
  \/ \E avail \in BOOLEAN : Relaunch(avail)
  \/ \E pw \in Passwords : res.op = "none" /\ DecryptV2(pw)

SpecOverride == Init /\ [][NextOverride]_vars

\* a further call of encryptV2, after the one that made the blob
EncryptV2Again(plaintext, password, cfg, seed) ==
  /\ blob.kind = "v2"
  /\ res.op = "none"
  /\ \E e \in {encryptV2(plaintext, password, cfg, seed, argon2, argon2Available, boxes)} :
       /\ e.ok
       /\ res' = [op |-> "encryptV2", password |-> password,
                  avail |-> argon2Available, out |-> e, seed |-> seed,
                  plaintext |-> plaintext]
       /\ argon2' = e.cache
       /\ boxes' = e.sealed
  /\ UNCHANGED <<argon2Available, blob, vaultVars>>

\* a call of tripleEncryptV2 that returns
TripleEncryptV2(secret, pass1, pass2, pass3, s1, s2, s3) ==
  /\ blob.kind = "none" /\ ~vault.made /\ res.op = "none"
  /\ \E t \in {tripleEncryptV2(secret, pass1, pass2, pass3, s1, s2, s3, argon2,
                                argon2Available, boxes)} :
       /\ t.ok
       /\ vault' = [made |-> TRUE, secret |-> secret, pass1 |-> pass1,
                    pass2 |-> pass2, pass3 |-> pass3, layer1 |-> t.layer1,
                    layer2 |-> t.layer2, out |-> t.val]
       /\ res' = [op |-> "tripleEncryptV2", password |-> pass3,
                  avail |-> argon2Available, draws |-> <<s1, s2, s3>>]
       /\ argon2' = t.cache
       /\ boxes' = t.sealed
  /\ UNCHANGED <<argon2Available, blob, seedPhrase, password1, password2, password3,
                 encryptedOutput, decryptedSeed, isLoading, activeTab, decryptStep,
                 tempData1, tempData2, pending, alert, clipboard>>

NextFresh ==
  \/ \E p \in Plaintexts, pw \in Passwords, cfg \in Overrides, seed \in FreshSeeds :
       ~vault.made /\ EncryptV2(p, pw, cfg, seed)
  \/ \E p \in Plaintexts, pw \in Passwords, cfg \in Overrides, seed \in FreshSeeds :
       EncryptV2Again(p, pw, cfg, seed)
  \/ \E secret \in SeedInputs, p1 \in Pass1Inputs, p2 \in Pass2Inputs, p3 \in Pass3Inputs,
        s1 \in FreshSeeds, s2 \in FreshSeeds, s3 \in FreshSeeds :
       TripleEncryptV2(secret, p1, p2, p3, s1, s2, s3)

SpecFresh == Init /\ [][NextFresh]_vars

Blank(s) == Trim(s) = <<>>

\* the encrypt form may still be edited and submitted
FormOpen == activeTab = "encrypt" /\ ~isLoading /\ Len(boxes) < 3 * MaxVaults

\* the password field of recovery step n is shown and editable
StepField(n) == activeTab = "decrypt" /\ ~isLoading /\ decryptStep = n

\* onChangeText of the seed phrase field
TypeSeedPhrase(text) ==
  /\ FormOpen
  /\ seedPhrase' = text
  /\ UNCHANGED <<argon2Available, argon2, boxes, cipherVars, password1, password2,
                 password3, encryptedOutput, decryptedSeed, isLoading, activeTab,
                 decryptStep, tempData1, tempData2, pending, alert, clipboard,
                 vault>>

\* onChangeText of the password 1 field
TypePassword1(text) ==
  /\ \/ FormOpen /\ text \in Pass1Inputs
     \/ StepField(3) /\ text \in StepInputs
  /\ password1' = text
  /\ UNCHANGED <<argon2Available, argon2, boxes, cipherVars, seedPhrase, password2,
                 password3, encryptedOutput, decryptedSeed, isLoading, activeTab,
                 decryptStep, tempData1, tempData2, pending, alert, clipboard,
                 vault>>

\* onChangeText of the password 2 field
TypePassword2(text) ==
  /\ \/ FormOpen /\ text \in Pass2Inputs
     \/ StepField(2) /\ text \in StepInputs
  /\ password2' = text
  /\ UNCHANGED <<argon2Available, argon2, boxes, cipherVars, seedPhrase, password1,
                 password3, encryptedOutput, decryptedSeed, isLoading, activeTab,
                 decryptStep, tempData1, tempData2, pending, alert, clipboard,
                 vault>>

\* onChangeText of the password 3 field
TypePassword3(text) ==
  /\ \/ FormOpen /\ text \in Pass3Inputs
     \/ StepField(1) /\ text \in StepInputs
  /\ password3' = text
  /\ UNCHANGED <<argon2Available, argon2, boxes, cipherVars, seedPhrase, password1,
                 password2, encryptedOutput, decryptedSeed, isLoading, activeTab,
                 decryptStep, tempData1, tempData2, pending, alert, clipboard,
                 vault>>

\* pasteFromClipboard
pasteFromClipboard ==
  /\ StepField(1)
  /\ IF ~Blank(clipboard)
     THEN encryptedOutput' = Trim(clipboard) /\ UNCHANGED alert
     ELSE alert' = [title |-> "Info", body |-> "Clipboard is empty", step |-> 0]
          /\ UNCHANGED encryptedOutput
  /\ UNCHANGED <<argon2Available, argon2, boxes, cipherVars, seedPhrase, password1,
                 password2, password3, decryptedSeed, isLoading, activeTab,
                 decryptStep, tempData1, tempData2, pending, clipboard, vault>>

\* switchTab(tab): the tab buttons are pressable at any time
switchTab(tab) ==
  /\ activeTab' = tab
  /\ IF tab = "decrypt"
     THEN /\ password1' = <<>> /\ password2' = <<>> /\ password3' = <<>>
          /\ encryptedOutput' = <<>> /\ decryptedSeed' = <<>>
          /\ tempData1' = <<>> /\ tempData2' = <<>>
          /\ decryptStep' = 1
     ELSE UNCHANGED <<password1, password2, password3, encryptedOutput,
                      decryptedSeed, tempData1, tempData2, decryptStep>>
  /\ UNCHANGED <<argon2Available, argon2, boxes, cipherVars, seedPhrase, isLoading,
                 pending, alert, clipboard, vault>>

\* onTripleEncrypt up to its await
onTripleEncrypt ==
  /\ FormOpen
  /\ IF Blank(seedPhrase) \/ Blank(password1) \/ Blank(password2) \/ Blank(password3)
     THEN /\ alert' = [title |-> "Error", body |-> "Please complete all fields",
                       step |-> 0]
          /\ UNCHANGED <<isLoading, pending>>
     ELSE /\ isLoading' = TRUE
          /\ pending' = [NoPending EXCEPT !.kind = "encrypt", !.seed = seedPhrase,
                           !.pass1 = password1, !.pass2 = password2,
                           !.pass3 = password3]
          /\ UNCHANGED alert
  /\ UNCHANGED <<argon2Available, argon2, boxes, cipherVars, seedPhrase, password1,
                 password2, password3, encryptedOutput, decryptedSeed, activeTab,
                 decryptStep, tempData1, tempData2, clipboard, vault>>

\* onTripleEncrypt from the moment tripleEncryptV2 settles
TripleEncryptDone(s1, s2, s3) ==
  /\ pending.kind = "encrypt"
  /\ \E t \in {tripleEncryptV2(pending.seed, pending.pass1, pending.pass2,
                                pending.pass3, s1, s2, s3, argon2, argon2Available,
                                boxes)} :
       /\ IF t.ok
          THEN /\ encryptedOutput' = t.val
               /\ clipboard' = t.val
               /\ alert' = [title |-> "v2 Triple Encryption Success", body |-> "",
                            step |-> 0]
               /\ vault' = [made |-> TRUE, secret |-> pending.seed,
                            pass1 |-> pending.pass1, pass2 |-> pending.pass2,
                            pass3 |-> pending.pass3, layer1 |-> t.layer1,
                            layer2 |-> t.layer2, out |-> t.val]
          ELSE /\ alert' = [title |-> "Error", body |-> t.err.msg, step |-> 0]
               /\ UNCHANGED <<encryptedOutput, clipboard, vault>>
       /\ argon2' = t.cache
       /\ boxes' = t.sealed
  /\ isLoading' = FALSE
  /\ pending' = NoPending
  /\ UNCHANGED <<argon2Available, cipherVars, seedPhrase, password1, password2,
                 password3, decryptedSeed, activeTab, decryptStep, tempData1,
                 tempData2>>

\* the text and the password that onStepDecrypt reads at step n
StepText(n) == IF n = 1 THEN encryptedOutput ELSE IF n = 2 THEN tempData1 ELSE tempData2

StepPassword(n) == IF n = 1 THEN password3 ELSE IF n = 2 THEN password2 ELSE password1

\* onStepDecrypt up to its await
onStepDecrypt ==
  /\ activeTab = "decrypt" /\ ~isLoading
  /\ IF Blank(StepText(decryptStep)) \/ Blank(StepPassword(decryptStep))
     THEN /\ alert' = [title |-> "Error",
                       body |-> IF decryptStep = 1
                                THEN "Need encrypted text and password 3"
                                ELSE IF decryptStep = 2 THEN "Need password 2"
                                ELSE "Need password 1 (most secret)",
                       step |-> 0]
          /\ UNCHANGED <<isLoading, pending>>
     ELSE /\ isLoading' = TRUE
          /\ pending' = [NoPending EXCEPT !.kind = "decrypt", !.step = decryptStep,
                           !.input = IF decryptStep = 1 THEN Trim(encryptedOutput)
                                     ELSE StepText(decryptStep),
                           !.password = StepPassword(decryptStep)]
          /\ UNCHANGED alert
  /\ UNCHANGED <<argon2Available, argon2, boxes, cipherVars, seedPhrase, password1,
                 password2, password3, encryptedOutput, decryptedSeed, activeTab,
                 decryptStep, tempData1, tempData2, clipboard, vault>>

\* onStepDecrypt after its await as it would be if step 2 did not clear
\* tempData1
StepDecryptDoneKeepsIntermediate ==
  /\ pending.kind = "decrypt"
  /\ \E d \in {decryptAuto(pending.input, pending.password, argon2, argon2Available,
                            boxes)} :
       /\ IF d.ok /\ pending.step = 1
          THEN /\ tempData1' = d.val /\ decryptStep' = 2 /\ password3' = <<>>
               /\ alert' = [title |-> "Step 1 Complete", body |-> "", step |-> 1]
               /\ UNCHANGED <<tempData2, decryptedSeed, password1, password2,
                              encryptedOutput>>
          ELSE IF d.ok /\ pending.step = 2
          THEN /\ tempData2' = d.val /\ decryptStep' = 3 /\ password2' = <<>>
               /\ UNCHANGED tempData1
               /\ alert' = [title |-> "Step 2 Complete", body |-> "", step |-> 2]
               /\ UNCHANGED <<decryptedSeed, password1, password3, encryptedOutput>>
          ELSE IF d.ok
          THEN /\ decryptedSeed' = d.val /\ password1' = <<>> /\ tempData2' = <<>>
               /\ encryptedOutput' = <<>>
               /\ alert' = [title |-> "SEED PHRASE RECOVERED", body |-> "", step |-> 3]
               /\ UNCHANGED <<tempData1, decryptStep, password2, password3>>
          ELSE /\ alert' = [title |-> "Error", body |-> d.err.msg,
                            step |-> pending.step]
               /\ UNCHANGED <<tempData1, tempData2, decryptStep, decryptedSeed,
                              password1, password2, password3, encryptedOutput>>
       /\ argon2' = d.cache
  /\ isLoading' = FALSE
  /\ pending' = NoPending
  /\ UNCHANGED <<argon2Available, boxes, cipherVars, seedPhrase, activeTab,
                 clipboard, vault>>

\* onStepDecrypt after its await as it would be if a failed step went back
\* to step 1
StepDecryptDoneRollsBack ==
  /\ pending.kind = "decrypt"
  /\ \E d \in {decryptAuto(pending.input, pending.password, argon2, argon2Available,
                            boxes)} :
       /\ IF d.ok /\ pending.step = 1
          THEN /\ tempData1' = d.val /\ decryptStep' = 2 /\ password3' = <<>>
               /\ alert' = [title |-> "Step 1 Complete", body |-> "", step |-> 1]
               /\ UNCHANGED <<tempData2, decryptedSeed, password1, password2,
                              encryptedOutput>>
          ELSE IF d.ok /\ pending.step = 2
          THEN /\ tempData2' = d.val /\ decryptStep' = 3 /\ password2' = <<>>
               /\ tempData1' = <<>>
               /\ alert' = [title |-> "Step 2 Complete", body |-> "", step |-> 2]
               /\ UNCHANGED <<decryptedSeed, password1, password3, encryptedOutput>>
          ELSE IF d.ok
          THEN /\ decryptedSeed' = d.val /\ password1' = <<>> /\ tempData2' = <<>>
               /\ encryptedOutput' = <<>>
               /\ alert' = [title |-> "SEED PHRASE RECOVERED", body |-> "", step |-> 3]
               /\ UNCHANGED <<tempData1, decryptStep, password2, password3>>
          ELSE /\ alert' = [title |-> "Error", body |-> d.err.msg,
                            step |-> pending.step]
               /\ decryptStep' = 1
               /\ UNCHANGED <<tempData1, tempData2, decryptedSeed,
                              password1, password2, password3, encryptedOutput>>
       /\ argon2' = d.cache
  /\ isLoading' = FALSE
  /\ pending' = NoPending
  /\ UNCHANGED <<argon2Available, boxes, cipherVars, seedPhrase, activeTab,
                 clipboard, vault>>

\* onStepDecrypt after its await as it would be if setIsLoading(false) were
\* the last statement of the try block instead of a finally block
StepDecryptDoneNoFinally ==
  /\ pending.kind = "decrypt"
  /\ \E d \in {decryptAuto(pending.input, pending.password, argon2, argon2Available,
                            boxes)} :
       /\ IF d.ok /\ pending.step = 1
          THEN /\ tempData1' = d.val /\ decryptStep' = 2 /\ password3' = <<>>
               /\ alert' = [title |-> "Step 1 Complete", body |-> "", step |-> 1]
               /\ UNCHANGED <<tempData2, decryptedSeed, password1, password2,
                              encryptedOutput>>
          ELSE IF d.ok /\ pending.step = 2
          THEN /\ tempData2' = d.val /\ decryptStep' = 3 /\ password2' = <<>>
               /\ tempData1' = <<>>
               /\ alert' = [title |-> "Step 2 Complete", body |-> "", step |-> 2]
               /\ UNCHANGED <<decryptedSeed, password1, password3, encryptedOutput>>
          ELSE IF d.ok
          THEN /\ decryptedSeed' = d.val /\ password1' = <<>> /\ tempData2' = <<>>
               /\ encryptedOutput' = <<>>
               /\ alert' = [title |-> "SEED PHRASE RECOVERED", body |-> "", step |-> 3]
               /\ UNCHANGED <<tempData1, decryptStep, password2, password3>>
          ELSE /\ alert' = [title |-> "Error", body |-> d.err.msg,
                            step |-> pending.step]
               /\ UNCHANGED <<tempData1, tempData2, decryptStep, decryptedSeed,
                              password1, password2, password3, encryptedOutput>>
       /\ argon2' = d.cache
       /\ isLoading' = ~d.ok
  /\ pending' = NoPending
  /\ UNCHANGED <<argon2Available, boxes, cipherVars, seedPhrase, activeTab,
                 clipboard, vault>>

\* onStepDecrypt from the moment decryptAuto settles
StepDecryptDone ==
  /\ pending.kind = "decrypt"
  /\ \E d \in {decryptAuto(pending.input, pending.password, argon2, argon2Available,
                            boxes)} :
       /\ IF d.ok /\ pending.step = 1
          THEN /\ tempData1' = d.val /\ decryptStep' = 2 /\ password3' = <<>>
               /\ alert' = [title |-> "Step 1 Complete", body |-> "", step |-> 1]
               /\ UNCHANGED <<tempData2, decryptedSeed, password1, password2,
                              encryptedOutput>>
          ELSE IF d.ok /\ pending.step = 2
          THEN /\ tempData2' = d.val /\ decryptStep' = 3 /\ password2' = <<>>
               /\ tempData1' = <<>>
               /\ alert' = [title |-> "Step 2 Complete", body |-> "", step |-> 2]
               /\ UNCHANGED <<decryptedSeed, password1, password3, encryptedOutput>>
          ELSE IF d.ok
          THEN /\ decryptedSeed' = d.val /\ password1' = <<>> /\ tempData2' = <<>>
               /\ encryptedOutput' = <<>>
               /\ alert' = [title |-> "SEED PHRASE RECOVERED", body |-> "", step |-> 3]
               /\ UNCHANGED <<tempData1, decryptStep, password2, password3>>
          ELSE /\ alert' = [title |-> "Error", body |-> d.err.msg,
                            step |-> pending.step]
               /\ UNCHANGED <<tempData1, tempData2, decryptStep, decryptedSeed,
                              password1, password2, password3, encryptedOutput>>
       /\ argon2' = d.cache
  /\ isLoading' = FALSE
  /\ pending' = NoPending
  /\ UNCHANGED <<argon2Available, boxes, cipherVars, seedPhrase, activeTab,
                 clipboard, vault>>

\* resetAll as it would be if it left the outer blob in place
resetAllKeepsBlob ==
  /\ activeTab = "decrypt" /\ ~isLoading
  /\ decryptStep' = 1
  /\ tempData1' = <<>> /\ tempData2' = <<>>
  /\ decryptedSeed' = <<>> /\ UNCHANGED encryptedOutput
  /\ password1' = <<>> /\ password2' = <<>> /\ password3' = <<>>
  /\ alert' = [title |-> "Reset Complete", body |-> "All data cleared", step |-> 0]
  /\ UNCHANGED <<argon2Available, argon2, boxes, cipherVars, seedPhrase, isLoading,
                 activeTab, pending, clipboard, vault>>

\* resetAll: the Reset button is disabled while isLoading
resetAll ==
  /\ activeTab = "decrypt" /\ ~isLoading
  /\ decryptStep' = 1
  /\ tempData1' = <<>> /\ tempData2' = <<>>
  /\ decryptedSeed' = <<>> /\ encryptedOutput' = <<>>
  /\ password1' = <<>> /\ password2' = <<>> /\ password3' = <<>>
  /\ alert' = [title |-> "Reset Complete", body |-> "All data cleared", step |-> 0]
  /\ UNCHANGED <<argon2Available, argon2, boxes, cipherVars, seedPhrase, isLoading,
                 activeTab, pending, clipboard, vault>>

NextVault ==
  \/ \E text \in SeedInputs : TypeSeedPhrase(text)
  \/ \E text \in StepInputs : TypePassword1(text)
  \/ \E text \in StepInputs : TypePassword2(text)
  \/ \E text \in StepInputs : TypePassword3(text)
  \/ pasteFromClipboard
  \/ \E tab \in {"encrypt", "decrypt"} : switchTab(tab)
  \/ onTripleEncrypt
  \/ \E s1 \in Seeds, s2 \in Seeds, s3 \in Seeds : TripleEncryptDone(s1, s2, s3)
  \/ onStepDecrypt
  \/ StepDecryptDone
  \/ resetAll

SpecVault == Init /\ [][NextVault]_vars

\* the step of the component in which a suspended onStepDecrypt resumes:
\* StepDecryptDone is the only action that takes pending from a step
\* decryption to none
StepDecryptSettles == pending.kind = "decrypt" /\ pending' = NoPending

\* the promise of decryptAuto settles (key derivation and secretbox.open
\* terminate) and the runtime then runs the rest of onStepDecrypt
SpecVaultLive == SpecVault /\ WF_pending(StepDecryptSettles)

(***************************************************************************)
(* Properties                                                              *)
(***************************************************************************)
\* the decoded bytes of the blob under study
BlobBytes == base64ToBlob(blob.b64)

\* C1 (as claimed): decryptV2 of a blob made by encryptV2(p, pw), with the same
\* password and the same Argon2id availability, returns exactly p.
C1_RoundTrip ==
  (res.op = "decryptV2" /\ blob.kind = "v2" /\ res.password = blob.password
     /\ res.avail = blob.avail)
  => (res.out.ok /\ res.out.val = blob.plaintext)

\* C2: decryptV2 and decryptAuto of a blob made by encryptV2(p, pw) fail for
\* every password other than pw; they return no string.
C2_WrongPasswordFails ==
  (res.op \in {"decryptV2", "decryptAuto"} /\ blob.kind = "v2"
     /\ res.password # blob.password)
  => (~res.out.ok /\ res.out.val = <<>>)

C2_Witness ==
  /\ res.op = "decryptAuto" /\ blob.kind = "v2" /\ blob.ran = "argon2id"
  /\ res.password # blob.password
  /\ res.out.calls = <<"decryptV2", "decryptFromBase64">>
  /\ res.out.v2.parsed /\ ~res.out.ok

\* C3: decryptV2 with the right password fails on a blob made by
\* encryptV2(p, pw) in which one bit, anywhere, has been inverted.
C3_TamperFails ==
  res.op = "decryptV2Flipped" => (~res.out.ok /\ res.out.val = <<>>)

C3_Witness ==
  /\ res.op = "decryptV2Flipped" /\ res.byte > HEADER_SIZE
  /\ res.out.parsed /\ ~res.out.ok

\* C4: with Argon2id unavailable, encryptV2 without override or with an
\* Argon2id override derives with scrypt and writes KDF id 0x02 and the scrypt
\* parameters into the header, and decryptV2 of that blob with the same
\* password, Argon2id still unavailable, succeeds.
C4_FallbackRecorded ==
  (blob.kind = "v2" /\ ~blob.avail /\ CfgId(blob.cfg) \in {"", "argon2id"})
  => /\ blob.ran = "scrypt"
     /\ BlobBytes[5] = 2
     /\ Slice(BlobBytes, 5, 17)
          = Uint32Bytes(MOBILE_SCRYPT.N) \o Uint32Bytes(MOBILE_SCRYPT.r)
              \o Uint32Bytes(MOBILE_SCRYPT.s_p)
     /\ (res.op = "decryptV2" /\ res.password = blob.password /\ ~res.avail)
          => (res.out.ok /\ res.out.ran = "scrypt")

C4_Witness ==
  /\ blob.kind = "v2" /\ ~blob.avail /\ blob.cfg = [id |-> "argon2id"]
  /\ res.op = "decryptV2" /\ res.password = blob.password /\ ~res.avail
  /\ res.out.ok

\* C5 (as claimed): decryptV2 derives the key with the KDF its header names,
\* whatever the Argon2id availability.
C5_HeaderKdfUsed ==
  (res.op = "decryptV2" /\ res.out.parsed /\ res.out.ran # "none")
  => res.out.ran = res.out.header.kdfId

\* C6 (as claimed): when encryptV2 asks deriveKey for Argon2id (or for
\* nothing), scrypt replaces Argon2id exactly when Argon2id is unavailable,
\* whatever the password.
C6_FallbackByCapabilityOnly ==
  (blob.kind = "v2" /\ CfgId(blob.cfg) \in {"", "argon2id"})
  => (blob.ran = "scrypt" <=> ~blob.avail)

\* C9: decryptAuto calls decryptV2 first and returns its result when it
\* succeeds; it calls the legacy decoder only after decryptV2 has failed, for
\* any failure; when both fail it throws one fixed error.
C9_AutoOrder ==
  res.op = "decryptAuto"
  => /\ res.out.calls[1] = "decryptV2"
     /\ \E v \in {decryptV2(blob.b64, res.password, FALSE, res.avail, boxes)} :
          res.out.v2.ok = v.ok /\ res.out.v2.val = v.val /\ res.out.v2.err = v.err
     /\ res.out.v2.ok => (res.out.calls = <<"decryptV2">> /\ res.out.ok
                            /\ res.out.val = res.out.v2.val)
     /\ ~res.out.v2.ok => res.out.calls = <<"decryptV2", "decryptFromBase64">>
     /\ ~res.out.ok
          => res.out.err
               = Err("Decryption failed: incorrect password or unsupported format", <<>>)

C9_Witness ==
  /\ res.op = "decryptAuto" /\ blob.kind = "legacy"
  /\ ~res.out.v2.ok /\ ~res.out.v2.parsed /\ res.out.ok

\* C10 (as claimed): a legacy blob of any plaintext decrypts to that plaintext
\* through decryptAuto with the right password, and decryptV2 fails on it.
C10_LegacyCompat ==
  (blob.kind = "legacy" /\ res.password = blob.password)
  => /\ res.op = "decryptAuto" => (res.out.ok /\ res.out.val = blob.plaintext)
     /\ res.op = "decryptV2" => ~res.out.ok

\* the blob that recovery step n takes when the flow started from the
\* output of tripleEncryptV2, and the password of the layer it removes
LayerInput(n) == IF n = 1 THEN vault.out ELSE IF n = 2 THEN vault.layer2 ELSE vault.layer1

LayerPassword(n) == IF n = 1 THEN vault.pass3 ELSE IF n = 2 THEN vault.pass2 ELSE vault.pass1

\* this step is the completion of recovery step n
StepCompletes(n) ==
  pending.kind = "decrypt" /\ pending.step = n /\ pending' = NoPending

\* this step is the completion of recovery step n on the right layer with the
\* right password
RightStep(n) ==
  /\ StepCompletes(n) /\ vault.made
  /\ pending.input = LayerInput(n) /\ pending.password = LayerPassword(n)

\* C7 (as claimed): from the output of tripleEncryptV2(secret, p1, p2, p3),
\* step 1 with p3 succeeds and moves to step 2, step 2 with p2 succeeds and
\* moves to step 3, step 3 with p1 succeeds and leaves secret in decryptedSeed.
C7_LayeredRoundTrip ==
  [][/\ RightStep(1) => (decryptStep' = 2 /\ tempData1' = vault.layer2)
     /\ RightStep(2) => (decryptStep' = 3 /\ tempData2' = vault.layer1)
     /\ RightStep(3) => decryptedSeed' = vault.secret]_vars

PairwiseDistinct ==
  vault.pass1 # vault.pass2 /\ vault.pass1 # vault.pass3 /\ vault.pass2 # vault.pass3

\* C8: for pairwise distinct p1, p2, p3, a step that is given a password other
\* than its layer's fails, reports its own number and writes nothing; each
\* intermediate and the seed are written only by the step of their layer run
\* with that layer's password, so the seed is written only after p3, p2, p1 in
\* that order.
C8_WrongOrderFails ==
  [][(vault.made /\ PairwiseDistinct) =>
       /\ \A n \in 1 .. 3 :
            (StepCompletes(n) /\ pending.password # LayerPassword(n))
            => /\ alert' = [title |-> "Error", step |-> n,
                            body |-> "Decryption failed: incorrect password or unsupported format"]
               /\ UNCHANGED <<decryptStep, tempData1, tempData2, decryptedSeed>>
       /\ (tempData1' # tempData1 /\ tempData1' # <<>>)
            => (StepCompletes(1) /\ pending.password = vault.pass3)
       /\ (tempData2' # tempData2 /\ tempData2' # <<>>)
            => (StepCompletes(2) /\ pending.password = vault.pass2
                  /\ pending.input = vault.layer2)
       /\ (decryptedSeed' # decryptedSeed /\ decryptedSeed' # <<>>)
            => (StepCompletes(3) /\ pending.password = vault.pass1
                  /\ pending.input = vault.layer1)]_vars

\* step 2 was given p1 on the right intermediate and failed
C8_Witness ==
  /\ vault.made /\ PairwiseDistinct /\ ~isLoading
  /\ decryptStep = 2 /\ tempData1 = vault.layer2 /\ password2 = vault.pass1
  /\ alert.title = "Error" /\ alert.step = 2
  /\ decryptedSeed = <<>>

\* C11 (as claimed): when parseHeader succeeds on the blob, decryptAuto does
\* not invoke the legacy decoder decryptFromBase64.
C11_LegacyNeverOnHeader ==
  (res.op = "decryptAuto" /\ res.out.v2.parsed)
  => res.out.calls = <<"decryptV2">>

\* C11 (amended): when parseHeader succeeds on the blob, decryptAuto invokes
\* the legacy decoder exactly when decryptV2 has failed after the header
\* (key derivation or authentication); when decryptV2 succeeds the legacy
\* decoder is not invoked.
C11_LegacyOnlyAfterFailure ==
  (res.op = "decryptAuto" /\ res.out.v2.parsed)
  => /\ res.out.v2.ok => res.out.calls = <<"decryptV2">>
     /\ ~res.out.v2.ok => res.out.calls = <<"decryptV2", "decryptFromBase64">>

\* a blob with a valid scrypt header, wrong password: the legacy decoder ran
C11_Witness ==
  /\ res.op = "decryptAuto" /\ blob.kind = "v2" /\ blob.ran = "scrypt"
  /\ res.out.v2.parsed /\ ~res.out.v2.ok
  /\ res.out.v2.err = Err("Decryption failed: incorrect password or corrupted data", <<>>)
  /\ res.out.calls = <<"decryptV2", "decryptFromBase64">>

\* C12 (as claimed): a failed decryptV2 gives its caller one generic error,
\* the one of a tag mismatch, whatever the cause of the failure (magic,
\* version, KDF id or authenticator of the altered blob).
C12_NoFormatOracle ==
  (res.op = "decryptV2Flipped" /\ ~res.out.ok)
  => res.out.err
       = Err("Decryption failed: incorrect password or corrupted data", <<>>)

\* C13 (as claimed): when Argon2id is unavailable and key derivation fails in
\* decryptV2 (the header parsed, no KDF produced a key), the error that
\* reaches the caller of decryptAuto is that derivation error, not the unified
\* decryption failure.
C13_DerivationErrorDistinct ==
  (res.op = "decryptAutoFlipped" /\ ~res.avail
     /\ res.out.v2.parsed /\ res.out.v2.ran = "none")
  => /\ ~res.out.ok
     /\ res.out.err = res.out.v2.err
     /\ res.out.err
          # Err("Decryption failed: incorrect password or unsupported format", <<>>)

\* b64 is what encryptV2(plaintext, password) returns for some outcome of the
\* random source
IsEncryptV2Of(b64, plaintext, password, cache, avail, sealed) ==
  \E s \in Seeds :
    \E e \in {encryptV2(plaintext, password, NoCfg, s, cache, avail, sealed)} :
      e.ok /\ e.val = b64

\* decryptV2 of b64 succeeds under password only, among the passwords of the
\* recovery flow, and returns plaintext
OpensOnlyUnder(b64, password, plaintext, cache, avail, sealed) ==
  \A pw \in StepInputs :
    \E d \in {decryptV2(b64, pw, cache, avail, sealed)} :
      /\ d.ok <=> pw = password
      /\ d.ok => d.val = plaintext

\* the record v of a triple encryption is three encryptV2 in sequence
Layered(v, cache, avail, sealed) ==
  /\ IsEncryptV2Of(v.layer1, v.secret, v.pass1, cache, avail, sealed)
  /\ IsEncryptV2Of(v.layer2, v.layer1, v.pass2, cache, avail, sealed)
  /\ IsEncryptV2Of(v.out, v.layer2, v.pass3, cache, avail, sealed)
  /\ OpensOnlyUnder(v.out, v.pass3, v.layer2, cache, avail, sealed)
  /\ OpensOnlyUnder(v.layer2, v.pass2, v.layer1, cache, avail, sealed)
  /\ \A pw \in StepInputs :
       decryptV2(v.layer1, pw, cache, avail, sealed).ok <=> pw = v.pass1

\* C14: tripleEncryptV2(secret, pass1, pass2, pass3) returns
\* encryptV2(encryptV2(encryptV2(secret, pass1), pass2), pass3): what it
\* returns decrypts under pass3 only, to a blob that decrypts under pass2 only,
\* to a blob that decrypts under pass1 only.
C14_ThreeLayers ==
  [][(pending.kind = "encrypt" /\ vault' # vault)
       => /\ encryptedOutput' = vault'.out
          /\ Layered(vault', argon2', argon2Available, boxes')]_vars

C14_Witness ==
  /\ vault.made /\ encryptedOutput = vault.out /\ clipboard = vault.out
  /\ vault.layer1 # vault.layer2 /\ vault.layer2 # vault.out
  /\ Len(boxes) = 3

\* this step is the completion of recovery step n and decryptAuto succeeded
StepSucceeds(n) ==
  /\ StepCompletes(n)
  /\ decryptAuto(pending.input, pending.password, argon2, argon2Available, boxes).ok

\* this step is the completion of recovery step n and decryptAuto threw
StepFails(n) ==
  /\ StepCompletes(n)
  /\ ~decryptAuto(pending.input, pending.password, argon2, argon2Available, boxes).ok

\* C15: when step 1 succeeds password3 is cleared and tempData1 is the only
\* intermediate held; when step 2 succeeds password2 and tempData1 are cleared
\* and tempData2 is the only intermediate held; when step 3 succeeds
\* password1, tempData2 and encryptedOutput are cleared.
C15_DiscardOnSuccess ==
  [][/\ StepSucceeds(1)
          => /\ password3' = <<>>
             /\ tempData1' # <<>> /\ tempData2' = <<>>
     /\ StepSucceeds(2)
          => /\ password2' = <<>> /\ tempData1' = <<>>
             /\ tempData2' # <<>>
     /\ StepSucceeds(3)
          => /\ password1' = <<>> /\ tempData2' = <<>> /\ encryptedOutput' = <<>>]_vars

\* step 2 has just succeeded on the vault's second layer
C15_Witness ==
  /\ vault.made /\ ~isLoading /\ alert.title = "Step 2 Complete"
  /\ decryptStep = 3 /\ tempData2 = vault.layer1
  /\ tempData1 = <<>> /\ password2 = <<>> /\ password3 = <<>>
  /\ encryptedOutput = vault.out

\* C16: a step whose decryptAuto throws leaves decryptStep, tempData1,
\* tempData2, decryptedSeed and encryptedOutput as they were, and the alert
\* names the number of the step that failed and carries decryptAuto's message
\* only.
C16_FailedStepFrame ==
  [][\A n \in 1 .. 3 :
       StepFails(n)
       => /\ UNCHANGED <<decryptStep, tempData1, tempData2, decryptedSeed,
                         encryptedOutput>>
          /\ alert' = [title |-> "Error", step |-> n,
                       body |-> "Decryption failed: incorrect password or unsupported format"]]_vars

\* step 3 has just failed on the vault's first layer and can be retried
C16_Witness ==
  /\ vault.made /\ ~isLoading /\ alert.title = "Error" /\ alert.step = 3
  /\ decryptStep = 3 /\ tempData2 = vault.layer1 /\ password1 # vault.pass1
  /\ password1 # <<>> /\ decryptedSeed = <<>> /\ encryptedOutput = vault.out

\* the recovery flow holds nothing and is at step 1
Cleared ==
  /\ decryptStep = 1
  /\ tempData1 = <<>> /\ tempData2 = <<>> /\ decryptedSeed = <<>>
  /\ encryptedOutput = <<>>
  /\ password1 = <<>> /\ password2 = <<>> /\ password3 = <<>>

\* C17: resetAll and switchTab('decrypt') leave decryptStep at 1 and
\* tempData1, tempData2, decryptedSeed, encryptedOutput, password1, password2
\* and password3 empty, whatever the state they are run in.
C17_ResetClears ==
  [][(resetAll \/ switchTab("decrypt")) => Cleared']_vars

\* resetAll has just run after the whole flow had been walked through
C17_Witness ==
  /\ alert.title = "Reset Complete" /\ Cleared
  /\ vault.made /\ activeTab = "decrypt" /\ ~isLoading

\* the header that parseHeader reads from a base64 blob
HeaderOf(b64) == parseHeader(base64ToBlob(b64)).header

\* the header of b64 carries the salt and the nonce of the draws of outcome
\* seed
DrawnBy(b64, seed) ==
  \E h \in {HeaderOf(b64)} :
    /\ h.salt = RandomBytes(SALT_LEN, seed, 0)
    /\ h.nonce = RandomBytes(NONCE_LEN, seed, 1)

\* C18: the header of what an encryptV2 call returns carries the 16-byte salt
\* and the 24-byte nonce which that call drew from the random source, not
\* those of an earlier call: for a call that follows another one, and for each
\* of the three calls inside tripleEncryptV2.
C18_FreshDraws ==
  /\ res.op = "encryptV2"
       => /\ DrawnBy(res.out.val, res.seed)
          /\ res.out.salt = RandomBytes(SALT_LEN, res.seed, 0)
          /\ res.out.nonce = RandomBytes(NONCE_LEN, res.seed, 1)
          /\ res.out.salt # blob.salt => HeaderOf(res.out.val).salt # HeaderOf(blob.b64).salt
  /\ res.op = "tripleEncryptV2"
       => /\ DrawnBy(vault.layer1, res.draws[1])
          /\ DrawnBy(vault.layer2, res.draws[2])
          /\ DrawnBy(vault.out, res.draws[3])

\* the second and third call of a tripleEncryptV2 drew differently from the
\* first
C18_Witness ==
  /\ res.op = "tripleEncryptV2" /\ res.draws = <<0, 1, 1>>
  /\ HeaderOf(vault.layer1).salt # HeaderOf(vault.layer2).salt
  /\ HeaderOf(vault.layer2).nonce = HeaderOf(vault.out).nonce

\* the key that the KDF named by header h derives from password with the
\* header's parameters and salt
KeyOfHeader(h, password) ==
  IF h.kdfId = "argon2id"
  THEN <<"argon2id", Utf8Encode(password), h.salt, h.kdfConfig.m, h.kdfConfig.t,
         h.kdfConfig.p, h.kdfConfig.keyLen>>
  ELSE <<"scrypt", Utf8Encode(password), h.salt, h.kdfConfig.N, h.kdfConfig.r,
         h.kdfConfig.s_p, h.kdfConfig.keyLen>>

\* C19: in the blob that encryptV2 returns, the header's KDF id and parameters
\* are those of the KDF that derived the key of the box (the configuration
\* deriveKey returned, not the requested one), and the header's salt and nonce
\* are the salt given to deriveKey and the nonce given to secretbox.
C19_HeaderRecordsResolved ==
  blob.kind = "v2"
  => \E h \in {HeaderOf(blob.b64)} :
       /\ h.kdfId = blob.ran
       /\ h.kdfId = blob.config.id
       /\ serializeKdfParams(h.kdfConfig) = serializeKdfParams(blob.config)
       /\ h.salt = blob.salt /\ h.nonce = blob.nonce
       /\ \E n \in 1 .. Len(boxes) :
            /\ Slice(SliceFrom(BlobBytes, HEADER_SIZE), 0, 16) = TagBytes(n)
            /\ boxes[n].key = KeyOfHeader(h, blob.password)
            /\ boxes[n].nonce = h.nonce
            /\ boxes[n].msg = Utf8Encode(blob.plaintext)

\* Argon2id was available and the empty password still resolved to scrypt
C19_Witness ==
  /\ blob.kind = "v2" /\ blob.avail /\ blob.cfg = [id |-> "argon2id"]
  /\ blob.password = <<>> /\ blob.ran = "scrypt"
  /\ HeaderOf(blob.b64).kdfId = "scrypt"

\* C20: for every KdfConfig cfg of either variant (its three uint32
\* parameters, the other variant's fields zero, keyLen 32), 16-byte salt,
\* 24-byte nonce and ciphertext c, the empty one included,
\* parseHeader(createBlob(createHeader(cfg, salt, nonce), c)) succeeds and
\* returns kdfConfig = cfg, the salt, the nonce and c.
C20_HeaderRoundTrip ==
  res.op = "parseHeader"
  => /\ Len(res.bytes) = HEADER_SIZE
     /\ res.out.ok
     /\ res.out.header.magic = MAGIC /\ res.out.header.version = VERSION
     /\ res.out.header.kdfId = res.cfg.id
     /\ res.out.header.kdfConfig = res.cfg
     /\ res.out.header.salt = res.salt
     /\ res.out.header.nonce = res.nonce
     /\ res.out.ciphertext = res.ciphertext

\* a scrypt configuration with three different parameters, no ciphertext
C20_Witness ==
  /\ res.op = "parseHeader" /\ res.cfg.id = "scrypt"
  /\ res.cfg.N = -1 /\ res.cfg.r = 16909060 /\ res.cfg.s_p = 1
  /\ res.ciphertext = <<>> /\ res.out.ok
  /\ res.salt # Slice(res.nonce, 0, 16)

\* what parseHeader answers to a blob when its four checks are made in the
\* order length, magic, version, KDF id: the message of the first check that
\* fails, "" when none does
FirstFailedCheck(bytes) ==
  IF Len(bytes) < 57 THEN "Blob too short for header"
  ELSE IF Slice(bytes, 0, 3) # <<83, 83, 49>> THEN "Invalid magic"
  ELSE IF bytes[4] # 1 THEN "Unsupported version"
  ELSE IF bytes[5] \notin {1, 2} THEN "Unknown KDF ID"
  ELSE ""

\* C21: parseHeader fails when the blob is shorter than 57 bytes, when bytes
\* 0-2 are not "SS1", when the version byte is not 1, or when the KDF id byte
\* is not 0x01 or 0x02, and the error is that of the first of these checks, in
\* this order, that fails; it succeeds for every blob that passes all four;
\* a blob rejected for its KDF id yields no parameters.
C21_ParseHeaderChecks ==
  res.op = "parseBlob"
  => /\ res.out.err.msg = FirstFailedCheck(res.bytes)
     /\ res.out.ok <=> FirstFailedCheck(res.bytes) = ""
     /\ ~res.out.ok => res.out.header = NoHeader /\ res.out.ciphertext = <<>>
     /\ res.out.ok => res.out.header.kdfId = KDF_NAMES(res.bytes[5])

\* a full-length blob with the right magic whose version byte and KDF id byte
\* are both wrong: the version is the one reported
C21_Witness ==
  /\ res.op = "parseBlob" /\ Len(res.bytes) >= 57
  /\ Slice(res.bytes, 0, 3) = <<83, 83, 49>>
  /\ res.bytes[4] = 2 /\ res.bytes[5] = 3
  /\ res.out.err.msg = "Unsupported version"

\* whether the four bytes that follow offset at are v mod 2^32, lowest byte
\* first (a value of 2^31 or more is carried as v - 2^32)
LittleEndian(bytes, at, v) ==
  /\ bytes[at + 1] = v % 256
  /\ bytes[at + 2] = (v \div 256) % 256
  /\ bytes[at + 3] = (v \div 65536) % 256
  /\ bytes[at + 4] = (v \div 16777216) % 256

\* C22: whenever createHeader returns, it returns exactly 57 bytes, for either
\* KDF: "SS1" at bytes 0-2, version 1 at byte 3, the KDF id (0x01 Argon2id,
\* 0x02 scrypt) at byte 4, the three parameters (memory, iterations,
\* parallelism or N, r, p) as little-endian uint32 at bytes 5-16, a 16-byte
\* salt at bytes 17-32 and a 24-byte nonce at bytes 33-56; it returns for
\* every config of the id table with such a salt and nonce, and throws for a
\* config id outside the table.
C22_CreateHeaderLayout ==
  res.op = "createHeader"
  => /\ res.cfg.id \notin {"argon2id", "scrypt"}
          => ~res.out.ok /\ res.out.err.msg = "Unknown KDF ID"
     /\ (res.cfg.id \in {"argon2id", "scrypt"}
         /\ Len(res.salt) = 16 /\ Len(res.nonce) = 24) => res.out.ok
     /\ res.out.ok
          => /\ Len(res.out.bytes) = 57
             /\ Slice(res.out.bytes, 0, 3) = <<83, 83, 49>>
             /\ res.out.bytes[4] = 1
             /\ res.out.bytes[5] = (IF res.cfg.id = "argon2id" THEN 1 ELSE 2)
             /\ res.cfg.id = "argon2id"
                  => /\ LittleEndian(res.out.bytes, 5, res.cfg.m)
                     /\ LittleEndian(res.out.bytes, 9, res.cfg.t)
                     /\ LittleEndian(res.out.bytes, 13, res.cfg.p)
             /\ res.cfg.id = "scrypt"
                  => /\ LittleEndian(res.out.bytes, 5, res.cfg.N)
                     /\ LittleEndian(res.out.bytes, 9, res.cfg.r)
                     /\ LittleEndian(res.out.bytes, 13, res.cfg.s_p)
             /\ Len(res.salt) = 16 => Slice(res.out.bytes, 17, 33) = res.salt
             /\ Len(res.nonce) = 24 => Slice(res.out.bytes, 33, 57) = res.nonce

\* a scrypt config with N = 0x01020304 and r = 0xffffffff, and no salt: the
\* header is still 57 bytes, byte 5 is 0x04 and bytes 17-32 are zero
C22_Witness ==
  /\ res.op = "createHeader" /\ res.out.ok
  /\ res.cfg.id = "scrypt" /\ res.cfg.N = 16909060 /\ res.cfg.r = -1
  /\ res.salt = <<>> /\ Len(res.nonce) = 24
  /\ res.out.bytes[6] = 4 /\ res.out.bytes[10] = 255
  /\ Slice(res.out.bytes, 17, 33) = [i \in 1 .. 16 |-> 0]

\* C23: getKdfInfo decodes the header and nothing else: it leaves the cached
\* Argon2id loader and the cipher untouched, never throws, returns the
\* header's KDF id and parameters exactly when parseHeader succeeds on the
\* decoded blob, and null in every other case.
C23_GetKdfInfo ==
  [][res'.op = "getKdfInfo"
     => /\ argon2' = argon2 /\ boxes' = boxes
        /\ ~res'.out.threw
        /\ res'.out.null <=> ~parseHeader(B64Decode(res'.b64)).ok
        /\ res'.out.null <=> FirstFailedCheck(B64Decode(res'.b64)) # ""
        /\ ~res'.out.null
             => /\ res'.out.kdfId = parseHeader(B64Decode(res'.b64)).header.kdfId
                /\ res'.out.config = parseHeader(B64Decode(res'.b64)).header.kdfConfig
                /\ res'.out.kdfId = KDF_NAMES(B64Decode(res'.b64)[5])]_vars

\* a blob with a good Argon2id header, described while Argon2id could be
\* loaded and is not
C23_Witness ==
  /\ res.op = "getKdfInfo" /\ ~res.out.null /\ res.out.kdfId = "argon2id"
  /\ res.out.config.id = "argon2id"
  /\ argon2Available /\ ~argon2

\* C24: for every plaintext of n UTF-8 bytes the blob that encryptV2 encodes
\* is exactly 57 + n + 16 bytes, never fewer than 73, and the base64 string
\* it returns has 4 * ceil((73 + n) / 3) characters; "hello world", 11 bytes,
\* gives 84 bytes and 112 characters.
C24_BlobSize ==
  blob.kind = "v2"
  => /\ Len(BlobBytes) = 57 + Len(Utf8Encode(blob.plaintext)) + 16
     /\ Len(BlobBytes) >= 73
     /\ Len(blob.b64) = 4 * ((73 + Len(Utf8Encode(blob.plaintext)) + 2) \div 3)
     /\ Len(Utf8Encode(blob.plaintext)) = 11
          => Len(BlobBytes) = 84 /\ Len(blob.b64) = 112

\* "hello world" encrypted
C24_Witness ==
  /\ blob.kind = "v2" /\ blob.plaintext = HelloWorld
  /\ Len(Utf8Encode(blob.plaintext)) = 11
  /\ Len(blob.b64) = 112

\* C25: decryptV2 fails on every input whose decoded length is below 73
\* bytes and returns no plaintext for it: below 57 bytes the header is
\* rejected as too short, and from 57 to 72 bytes a well-formed header is
\* followed by a box the cipher refuses.
C25_ShortBlobFails ==
  (res.op = "decryptV2Truncated" /\ Len(B64Decode(res.b64)) < 73)
  => /\ ~res.out.ok /\ res.out.val = <<>>
     /\ Len(B64Decode(res.b64)) < 57
          => ~res.out.parsed /\ res.out.err.msg = "Blob too short for header"
     /\ Len(B64Decode(res.b64)) >= 57
          => /\ res.out.parsed
             /\ res.out.err.msg
                  = "Decryption failed: incorrect password or corrupted data"

\* the blob of an empty plaintext, 73 bytes, cut to 72 and decrypted with its
\* own password
C25_Witness ==
  /\ res.op = "decryptV2Truncated" /\ res.len = 72
  /\ Len(B64Decode(res.b64)) = 72
  /\ Len(BlobBytes) = 73 /\ blob.plaintext = <<>>
  /\ res.password = blob.password
  /\ ~res.out.ok /\ res.out.parsed

\* whether the finished call c returned what it returns when run alone from
\* the state the two calls were issued in
AsAlone(c) ==
  LET same(a) ==
        /\ c.out.ok = a.ok /\ c.out.val = a.val /\ c.out.err = a.err
        /\ c.out.config = a.config
  IN  same(CallResult(c, res.cache0, argon2Available, boxes))

\* C26: of two encryptV2, decryptV2 or deriveKey calls interleaved at their
\* awaits, each returns what it returns when run alone; the cached Argon2id
\* loader is never anything but what it was or what a single load makes it,
\* and once both calls are over it is what a single load leaves when either
\* call reached the loader.
C26_CallsIndependent ==
  res.op = "race"
  => /\ \A i \in 1 .. 2 : res.calls[i].pc = "done" => AsAlone(res.calls[i])
     /\ argon2 \in {res.cache0, loadArgon2(res.cache0, argon2Available).cache}
     /\ (\A i \in 1 .. 2 : res.calls[i].pc = "done")
          => argon2 = (IF \E i \in 1 .. 2 : NeedsArgon2(res.calls[i])
                       THEN loadArgon2(res.cache0, argon2Available).cache
                       ELSE res.cache0)

\* both calls found the cache empty and imported before either import
\* resolved, and both are over, derived with Argon2id
C26_Witness ==
  /\ res.op = "race" /\ ~res.cache0 /\ argon2Available /\ argon2
  /\ \A i \in 1 .. 2 :
       /\ res.calls[i].pc = "done" /\ res.calls[i].lib /\ res.calls[i].imported
       /\ res.calls[i].out.ok /\ res.calls[i].out.config.id = "argon2id"
  /\ res.calls[1].kind = "encryptV2" /\ res.calls[2].kind = "decryptV2"

\* C27: when the request names Argon2id, or names no KDF, and Argon2id cannot
\* be loaded, deriveKey derives with scrypt N = 4096, r = 8, p = 1 and a
\* 32-byte key whatever parameters the request carries, and returns a config
\* whose id is scrypt with exactly these parameters.
C27_FallbackIsMobileScrypt ==
  (res.op = "deriveKey" /\ ~res.avail /\ CfgId(res.cfg) \in {"", "argon2id"})
  => /\ res.out.ok
     /\ res.out.key = <<"scrypt", Utf8Encode(res.password), res.salt, 4096, 8, 1, 32>>
     /\ res.out.config.id = "scrypt"
     /\ res.out.config.N = 4096 /\ res.out.config.r = 8 /\ res.out.config.s_p = 1
     /\ res.out.config.keyLen = 32

\* Argon2id requested with scrypt parameters and a 16-byte key, and
\* unavailable
C27_Witness ==
  /\ res.op = "deriveKey" /\ ~res.avail
  /\ res.cfg = [id |-> "argon2id", N |-> 16, r |-> 1, s_p |-> 2, keyLen |-> 16]
  /\ res.password # <<>>
  /\ res.out.ok /\ res.out.config.N = 4096

\* field k of the request where it is given, else d
Given(cfg, k, d) == IF k \in DOMAIN cfg THEN cfg[k] ELSE d

\* C28: when the request's id is scrypt, deriveKey leaves the Argon2id
\* loader alone, whatever its availability, and a key it returns is derived
\* with scrypt from the request's N, r and p where given and from N = 131072,
\* r = 8, p = 1 where not, which the id alone always yields; when the request
\* has no id, it loads Argon2id when that is available, a key that Argon2id
\* produced is derived with memory 19456 KiB, 2 iterations and parallelism 1
\* unless overridden, and a non-empty password with no overrides is derived so.
C28_RequestedKdf ==
  res.op = "deriveKey"
  => /\ CfgId(res.cfg) = "scrypt"
          => /\ res.out.cache = res.cache0
             /\ res.out.ran # "argon2id"
             /\ res.out.ok
                  => res.out.key
                       = <<"scrypt", Utf8Encode(res.password), res.salt,
                           Given(res.cfg, "N", 131072), Given(res.cfg, "r", 8),
                           Given(res.cfg, "s_p", 1), 32>>
             /\ res.cfg = [id |-> "scrypt"] => res.out.ok
     /\ CfgId(res.cfg) = ""
          => /\ res.avail => res.out.cache
             /\ res.out.ran = "argon2id"
                  => res.out.key
                       = <<"argon2id", Utf8Encode(res.password), res.salt,
                           Given(res.cfg, "m", 19456), Given(res.cfg, "t", 2),
                           Given(res.cfg, "p", 1), 32>>
             /\ (res.avail /\ res.cfg = NoCfg /\ res.password # <<>>)
                  => res.out.ran = "argon2id"

\* scrypt requested with r and p only while Argon2id could be loaded and is
\* not: the key is derived with N = 131072 and the loader stays empty
C28_Witness ==
  /\ res.op = "deriveKey" /\ res.avail /\ ~res.cache0 /\ ~argon2
  /\ res.cfg = [id |-> "scrypt", r |-> 1, s_p |-> 2]
  /\ res.out.ok /\ res.out.key[4] = 131072 /\ res.out.key[5] = 1

\* the message texts that the code throws
ErrorMessages ==
  {"Blob too short for header", "Invalid magic", "Unsupported version",
   "Unknown KDF ID", "Key derivation failed: Error: scrypt rejected its arguments",
   "bad key size", "Decryption failed: incorrect password or corrupted data",
   "Decryption failed: incorrect password or unsupported format",
   "Encrypted text too short", "Incorrect password or corrupted data"}

\* the operations whose errors reach the caller
ThrowingOps ==
  {"deriveKey", "parseBlob", "tryEncryptV2", "decryptV2", "decryptV2Flipped",
   "decryptAuto", "decryptFromBase64"}

\* the bytes the operation was given to decode, none when it decodes nothing
GivenBytes ==
  IF res.op = "parseBlob" THEN res.bytes
  ELSE IF res.op = "decryptV2Flipped" THEN B64Decode(res.b64)
  ELSE IF res.op \in {"decryptV2", "decryptAuto", "decryptFromBase64"} THEN BlobBytes
  ELSE <<>>

\* what a message may quote: nothing, or the magic, the version byte or the
\* KDF id byte of the bytes that were given
Quotable(bytes) ==
  {<<>>} \cup (IF Len(bytes) < 6 THEN {}
               ELSE {Utf8Decode(Slice(bytes, 0, 3)), <<bytes[4]>>, <<bytes[5]>>})

\* the password and the plaintext at hand, as text and as UTF-8 bytes
SecretsAtHand ==
  {res.password, Utf8Encode(res.password), blob.plaintext, Utf8Encode(blob.plaintext)}
  \cup (IF res.op = "tryEncryptV2"
        THEN {res.plaintext, Utf8Encode(res.plaintext)} ELSE {})

\* C29: an error thrown by deriveKey, parseHeader, encryptV2, decryptV2,
\* decryptAuto or the legacy decoder has one of the fixed message texts of
\* the code and quotes at most the magic, the version byte or the KDF id byte
\* of the bytes it was given: never the password, the key or the plaintext.
C29_ErrorsCarryNoSecret ==
  (res.op \in ThrowingOps /\ ~res.out.ok)
  => /\ res.out.err.msg \in ErrorMessages
     /\ res.out.err.arg \in Quotable(GivenBytes)
     /\ res.out.err.arg \notin (SecretsAtHand \ {<<>>})

\* decryptV2 of a blob with a damaged magic, a password and a plaintext that
\* are not empty: the message quotes the magic
C29_Witness ==
  /\ res.op = "decryptV2Flipped" /\ ~res.out.ok
  /\ res.out.err.msg = "Invalid magic" /\ res.out.err.arg # <<>>
  /\ res.password # <<>> /\ blob.plaintext # <<>>

\* C30 (as claimed): once resetAll or switchTab('decrypt') has cleared the
\* recovery flow while a step's decryptAuto call is in flight, tempData1,
\* tempData2 and decryptedSeed stay empty and decryptStep stays 1: the step
\* that was in flight writes nothing when it completes.
C30_NoWriteAfterClear ==
  [][(pending.kind = "decrypt" /\ Cleared)
     => /\ tempData1' = <<>> /\ tempData2' = <<>> /\ decryptedSeed' = <<>>
        /\ decryptStep' = 1]_vars


\* C31: decryptV2 with the password of encryptV2 returns a plaintext only
\* for a blob whose KDF id, KDF parameters, salt, nonce and ciphertext are
\* those encryptV2 produced: with a header whose fields were written anew,
\* under any Argon2id availability, decryption succeeds only if the header
\* is byte for byte the one encryptV2 made
C31_HeaderBound ==
  (res.op = "decryptV2Rewritten" /\ res.out.ok)
    => res.header = Slice(BlobBytes, 0, HEADER_SIZE)

\* C32: in every reachable state of the recovery flow decryptStep is 1, 2 or
\* 3, tempData1 and tempData2 are never both non-empty, tempData1 is
\* non-empty only at step 2 and tempData2 only at step 3; decryptStep
\* increases only by one and only when the step it stood at succeeds, and
\* returns to 1 only through resetAll or switchTab('decrypt').
C32_StepMachine ==
  /\ [](/\ decryptStep \in {1, 2, 3}
        /\ ~(tempData1 # <<>> /\ tempData2 # <<>>)
        /\ (tempData1 # <<>> => decryptStep = 2)
        /\ (tempData2 # <<>> => decryptStep = 3))
  /\ [][/\ decryptStep' > decryptStep
             => (decryptStep' = decryptStep + 1 /\ StepSucceeds(decryptStep))
        /\ decryptStep' < decryptStep
             => (decryptStep' = 1 /\ (resetAll \/ switchTab("decrypt")))]_vars

\* C33: every onStepDecrypt invocation eventually leaves isLoading false:
\* the early return for a missing input leaves it false at once, and a call
\* that awaits decryptAuto holds it true until the call ends, by success or
\* by error, and then sets it false; while isLoading is true no step
\* decryption and no reset is started from the Decrypt and Reset buttons.
C33_LoadingEnds ==
  /\ [][onStepDecrypt => (isLoading' => pending'.kind = "decrypt")]_vars
  /\ [](pending.kind = "decrypt" => isLoading)
  /\ (pending.kind = "decrypt") ~> ~isLoading
  /\ [][isLoading => ~(onStepDecrypt \/ resetAll)]_vars

\* a step has ended by a decryption error, one by success and one by the
\* early return, and isLoading is false
C33_Witness ==
  /\ ~isLoading /\ pending.kind = "none"
  /\ alert.title = "Error" /\ alert.step = 2 /\ decryptStep = 2
  /\ tempData1 # <<>>

\* C34: for every kdfConfig override for which encryptV2 succeeds (any id,
\* any subset of parameters, those of the other KDF included, any keyLen),
\* decryptV2 of the result with the same password and the same Argon2id
\* availability returns the plaintext.
C34_OverrideRoundTrip ==
  (/\ res.op = "decryptV2" /\ blob.kind = "v2"
   /\ res.password = blob.password /\ res.avail = blob.avail)
    => (res.out.ok /\ res.out.val = blob.plaintext)

\* C35: legacy round trip: for every plaintext p, the empty string included,
\* and every password pw, decryptFromBase64(encryptToBase64Legacy(p, pw), pw)
\* returns p.
C35_LegacyRoundTrip ==
  (/\ res.op = "decryptFromBase64" /\ blob.kind = "legacy"
   /\ res.password = blob.password)
    => (res.out.ok /\ res.out.val = blob.plaintext)

\* C36: step 3 is terminal: once step 3 has succeeded (the recovered seed is
\* in decryptedSeed), pressing Decrypt again starts no decryption and changes
\* neither decryptStep, tempData1, tempData2 nor decryptedSeed, no decryption
\* is in flight, and decryptedSeed is changed by nothing but resetAll and
\* switchTab('decrypt').
C36_Step3Terminal ==
  [][decryptedSeed # <<>>
       => /\ pending.kind # "decrypt"
          /\ onStepDecrypt
               => /\ pending' = NoPending
                  /\ UNCHANGED <<decryptStep, tempData1, tempData2, decryptedSeed>>
          /\ decryptedSeed' # decryptedSeed
               => (resetAll \/ switchTab("decrypt"))]_vars
====
